---- MODULE Spec2Model ----
(***************************************************************************)
(* A model of the LushMeet Twitter bot (src/main.py): the rate limit       *)
(* tracker, the backoff-retrying dispatcher, the rotation selectors, the   *)
(* scheduling policy and the persisted bot state, as one sequential        *)
(* process.  Time is in whole seconds; a step of the model is the code     *)
(* that runs between two blocking points (a sleep or a remote call).       *)
(***************************************************************************)
EXTENDS Integers, Sequences, FiniteSets, TLC

\* ------------------------------------------------------------ constants
TWEET_INTERVAL_HOURS == 4
REPLY_INTERVAL_MINUTES == 30
MIN_LIKES_THRESHOLD == 2
FOLLOW_LIMIT_PER_DAY == 20
DM_LIMIT_PER_DAY == 5
MAX_RETRIES == 5
INITIAL_BACKOFF == 60
MAX_BACKOFF == 3600
RATE_LIMIT_RESET_BUFFER == 5
\* the default 15 minute window of _check_rate_limit
DEFAULT_WINDOW == 900
\* the caps written as literals in should_post_tweet / should_find_and_reply
TWEET_LIMIT_PER_DAY == 5
REPLY_LIMIT_PER_DAY == 24
\* seconds of one calendar day (the "%Y-%m-%d" date of a clock value)
SECONDS_PER_DAY == 86400

\* Python's None for a timestamp or a header that is not there
NONE == -1
\* a header whose text int() cannot parse (int() raises ValueError)
MALFORMED == -2

\* ------------------------------------------------------------ bounds
\* responses of one run that carry rate limit headers or are the first
\* failure of their dispatcher call (further failures of that call are free)
MaxEvents == 1
\* calls of _api_request_with_backoff in one run
MaxCalls == 4
\* cycles (run_once) in one run
MaxCycles == 2

\* ------------------------------------------------------------ inputs
Endpoints == {"search", "tweet", "follow", "dm"}
\* x-rate-limit-remaining values a response can carry
RemainingHeaders == {0, 7}
\* x-rate-limit-reset values a response can carry, as seconds after now
ResetOffsets == {120, 8000}
\* seconds a remote call takes
CallDurations == {1}
\* random.uniform(5, 15) and random.uniform(10, 30), in whole seconds
ActionDelays == {10}
DmDelays == {20}
\* time between two cycles: check_interval * jitter (120 s * 0.8..1.2), or
\* the gap to the next externally triggered one-shot run
CycleGaps == {120, 14400, 86400}
\* the clock when the bot is constructed
StartTimes == {0}

\* the lines of tweets.txt, replies.txt and dms.txt
tweets == << 1, 2 >>
replies == << 11, 12 >>
dms == << 21, 22 >>

\* what a search can return: tweets with id, like_count, author_id
FoundTweets ==
  { <<>>,
    << [id |-> 2, likes |-> 0, author_id |-> 102],
       [id |-> 1, likes |-> 5, author_id |-> 101],
       [id |-> 3, likes |-> 2, author_id |-> 102] >> }

Min(a, b) == IF a <= b THEN a ELSE b
Max(a, b) == IF a >= b THEN a ELSE b
Range(s) == { s[i] : i \in DOMAIN s }

\* datetime.now().strftime("%Y-%m-%d") of a clock value
Today(now) == now \div SECONDS_PER_DAY

VARIABLES
  pc,            \* where the process is
  clock,         \* time.time() / datetime.now(), in seconds
  state,         \* self.state, the in-memory BotState
  file,          \* the document in bot_state.json
  writes,        \* how many times _save_state has written the file
  rate_limits,   \* self.rate_limits
  enable_follows, enable_dms,
  cycles,        \* cycles started
  events,        \* responses with headers or first failures so far
  limits,        \* how many such responses, calls and cycles a run may have
  calls,         \* calls of _api_request_with_backoff so far
  \* _api_request_with_backoff
  endpoint, retries, backoff, wait_time, response, ret,
  \* the action in progress
  text, target,
  \* what has been observed of the dispatcher call and action in progress
  obs

vars == << pc, clock, state, file, writes, rate_limits, enable_follows,
           enable_dms, cycles, events, limits, calls, endpoint, retries, backoff, wait_time,
           response, ret, text, target, obs >>

dispVars == << endpoint, retries, backoff, wait_time, response, ret, calls >>

\* ------------------------------------------------------------ state store
DefaultState(now) ==
  [ last_tweet_time |-> NONE,
    last_reply_time |-> NONE,
    tweets_posted_today |-> 0,
    replies_sent_today |-> 0,
    follows_today |-> 0,
    dms_sent_today |-> 0,
    last_reset_date |-> Today(now),
    replied_to_tweets |-> <<>>,
    followed_users |-> <<>>,
    dm_sent_users |-> <<>>,
    used_tweets |-> <<>>,
    used_replies |-> <<>> ]

\* the content of a bot_state.json that json.load cannot parse
Unparseable == [ text |-> "not json" ]

\* JSON values: null, numbers, strings and arrays
JNull == [ t |-> "null" ]
JNumber(n) == [ t |-> "number", v |-> n ]
JString(x) == [ t |-> "string", v |-> x ]
JArray(s) == [ t |-> "array", v |-> s ]

\* json.dump of None or of the isoformat string of a time, and json.load of
\* null or of such a string
dump_optional(x) == IF x = NONE THEN JNull ELSE JString(x)
load_optional(j) == IF j.t = "null" THEN NONE ELSE j.v

\* json.dump of a list of numbers / of strings, and json.load of an array
dump_numbers(s) == JArray([i \in DOMAIN s |-> JNumber(s[i])])
dump_strings(s) == JArray([i \in DOMAIN s |-> JString(s[i])])
load_array(j) == [i \in DOMAIN j.v |-> j.v[i].v]

\* _save_state: the document json.dump writes for a state
json_dump(st) ==
  [ last_tweet_time |-> dump_optional(st.last_tweet_time),
    last_reply_time |-> dump_optional(st.last_reply_time),
    tweets_posted_today |-> JNumber(st.tweets_posted_today),
    replies_sent_today |-> JNumber(st.replies_sent_today),
    follows_today |-> JNumber(st.follows_today),
    dms_sent_today |-> JNumber(st.dms_sent_today),
    last_reset_date |-> JString(st.last_reset_date),
    replied_to_tweets |-> dump_numbers(st.replied_to_tweets),
    followed_users |-> dump_numbers(st.followed_users),
    dm_sent_users |-> dump_numbers(st.dm_sent_users),
    used_tweets |-> dump_strings(st.used_tweets),
    used_replies |-> dump_strings(st.used_replies) ]

\* (mutant) null is read as the time 0 and not as None
json_load_null_as_zero(doc) ==
  [ last_tweet_time |-> IF doc.last_tweet_time.t = "null" THEN 0
                        ELSE doc.last_tweet_time.v,
    last_reply_time |-> IF doc.last_reply_time.t = "null" THEN 0
                        ELSE doc.last_reply_time.v,
    tweets_posted_today |-> doc.tweets_posted_today.v,
    replies_sent_today |-> doc.replies_sent_today.v,
    follows_today |-> doc.follows_today.v,
    dms_sent_today |-> doc.dms_sent_today.v,
    last_reset_date |-> doc.last_reset_date.v,
    replied_to_tweets |-> load_array(doc.replied_to_tweets),
    followed_users |-> load_array(doc.followed_users),
    dm_sent_users |-> load_array(doc.dm_sent_users),
    used_tweets |-> load_array(doc.used_tweets),
    used_replies |-> load_array(doc.used_replies) ]

\* _load_state, line 106: the state json.load reads from a document
json_load(doc) ==
  [ last_tweet_time |-> load_optional(doc.last_tweet_time),
    last_reply_time |-> load_optional(doc.last_reply_time),
    tweets_posted_today |-> doc.tweets_posted_today.v,
    replies_sent_today |-> doc.replies_sent_today.v,
    follows_today |-> doc.follows_today.v,
    dms_sent_today |-> doc.dms_sent_today.v,
    last_reset_date |-> doc.last_reset_date.v,
    replied_to_tweets |-> load_array(doc.replied_to_tweets),
    followed_users |-> load_array(doc.followed_users),
    dm_sent_users |-> load_array(doc.dm_sent_users),
    used_tweets |-> load_array(doc.used_tweets),
    used_replies |-> load_array(doc.used_replies) ]

\* (mutant) the counters are zeroed but the date of the reset is not recorded
reset_daily_counters_keeps_date(st, now) ==
  IF st.last_reset_date # Today(now)
  THEN [st EXCEPT !.tweets_posted_today = 0,
                  !.replies_sent_today = 0,
                  !.follows_today = 0,
                  !.dms_sent_today = 0]
  ELSE st

\* (mutant) the reset starts the whole day afresh: it also forgets the times
\* of the last tweet and reply and the lists
reset_daily_counters_clears_all(st, now) ==
  IF st.last_reset_date # Today(now)
  THEN [st EXCEPT !.last_reset_date = Today(now),
                  !.tweets_posted_today = 0,
                  !.replies_sent_today = 0,
                  !.follows_today = 0,
                  !.dms_sent_today = 0,
                  !.last_tweet_time = NONE,
                  !.last_reply_time = NONE,
                  !.used_tweets = << >>,
                  !.used_replies = << >>,
                  !.replied_to_tweets = << >>,
                  !.followed_users = << >>,
                  !.dm_sent_users = << >>]
  ELSE st

\* _check_reset_daily_counters: the state after it
reset_daily_counters(st, now) ==
  IF st.last_reset_date # Today(now)
  THEN [st EXCEPT !.last_reset_date = Today(now),
                  !.tweets_posted_today = 0,
                  !.replies_sent_today = 0,
                  !.follows_today = 0,
                  !.dms_sent_today = 0]
  ELSE st

\* ------------------------------------------------------------ tracker
InitialRateLimits(now) ==
  [e \in Endpoints |->
     [remaining |-> CASE e = "search" -> 180
                      [] e = "tweet" -> 200
                      [] e = "follow" -> 50
                      [] e = "dm" -> 200,
      reset_time |-> now]]

\* (mutant) every endpoint is given the quota of the tweet endpoint
Capacity_flat(e) == 200

\* the quota _check_rate_limit restores once the window has expired
Capacity(e) ==
  CASE e = "search" -> 180
    [] e = "tweet" -> 200
    [] e = "follow" -> 50
    [] e = "dm" -> 200

\* (mutant) the wait is computed without the reset buffer
check_rate_limit_no_buffer(rl, e, now) ==
  IF e \notin DOMAIN rl THEN [wait |-> 0, rl |-> rl]
  ELSE IF rl[e].remaining > 0 THEN [wait |-> 0, rl |-> rl]
  ELSE IF now >= rl[e].reset_time + RATE_LIMIT_RESET_BUFFER
  THEN [wait |-> 0,
        rl |-> [rl EXCEPT ![e] = [remaining |-> Capacity(e),
                                  reset_time |-> now + DEFAULT_WINDOW]]]
  ELSE [wait |-> rl[e].reset_time - now, rl |-> rl]

\* (mutant) the expiry of the window is tested before the remaining quota
check_rate_limit_expiry_first(rl, e, now) ==
  IF e \notin DOMAIN rl THEN [wait |-> 0, rl |-> rl]
  ELSE IF now >= rl[e].reset_time + RATE_LIMIT_RESET_BUFFER
  THEN [wait |-> 0,
        rl |-> [rl EXCEPT ![e] = [remaining |-> Capacity(e),
                                  reset_time |-> now + DEFAULT_WINDOW]]]
  ELSE IF rl[e].remaining > 0 THEN [wait |-> 0, rl |-> rl]
  ELSE [wait |-> rl[e].reset_time - now + RATE_LIMIT_RESET_BUFFER, rl |-> rl]

\* _check_rate_limit: the value returned (False is 0, as `if wait_time:` reads
\* it) and the tracker after the call
check_rate_limit(rl, e, now) ==
  IF e \notin DOMAIN rl THEN [wait |-> 0, rl |-> rl]
  ELSE IF rl[e].remaining > 0 THEN [wait |-> 0, rl |-> rl]
  ELSE IF now >= rl[e].reset_time + RATE_LIMIT_RESET_BUFFER
  THEN [wait |-> 0,
        rl |-> [rl EXCEPT ![e] = [remaining |-> Capacity(e),
                                  reset_time |-> now + DEFAULT_WINDOW]]]
  ELSE [wait |-> rl[e].reset_time - now + RATE_LIMIT_RESET_BUFFER, rl |-> rl]

\* (mutant) with both headers only the remaining quota is taken from them
update_rate_limit_keeps_reset(rl, e, hdr) ==
  IF hdr.remaining # NONE /\ hdr.reset # NONE
  THEN IF hdr.remaining = MALFORMED
       THEN [rl |-> rl, raised |-> TRUE]
       ELSE [rl |-> [rl EXCEPT ![e].remaining = hdr.remaining],
             raised |-> hdr.reset = MALFORMED]
  ELSE IF e \in DOMAIN rl
  THEN [rl |-> [rl EXCEPT ![e].remaining = Max(0, rl[e].remaining - 1)],
        raised |-> FALSE]
  ELSE [rl |-> rl, raised |-> FALSE]

\* (mutant) a remaining header is used even when the reset header is absent
update_rate_limit_uses_partial(rl, e, hdr) ==
  IF hdr.remaining # NONE /\ hdr.reset # NONE
  THEN IF hdr.remaining = MALFORMED
       THEN [rl |-> rl, raised |-> TRUE]
       ELSE IF hdr.reset = MALFORMED
       THEN [rl |-> [rl EXCEPT ![e].remaining = hdr.remaining],
             raised |-> TRUE]
       ELSE [rl |-> [rl EXCEPT ![e] = [remaining |-> hdr.remaining,
                                       reset_time |-> hdr.reset]],
             raised |-> FALSE]
  ELSE IF hdr.remaining # NONE
  THEN [rl |-> [rl EXCEPT ![e].remaining = hdr.remaining], raised |-> FALSE]
  ELSE IF e \in DOMAIN rl
  THEN [rl |-> [rl EXCEPT ![e].remaining = Max(0, rl[e].remaining - 1)],
        raised |-> FALSE]
  ELSE [rl |-> rl, raised |-> FALSE]

\* (mutant) the estimate without headers is decremented below zero
update_rate_limit_unclamped(rl, e, hdr) ==
  IF hdr.remaining # NONE /\ hdr.reset # NONE
  THEN IF hdr.remaining = MALFORMED
       THEN [rl |-> rl, raised |-> TRUE]
       ELSE IF hdr.reset = MALFORMED
       THEN [rl |-> [rl EXCEPT ![e].remaining = hdr.remaining],
             raised |-> TRUE]
       ELSE [rl |-> [rl EXCEPT ![e] = [remaining |-> hdr.remaining,
                                       reset_time |-> hdr.reset]],
             raised |-> FALSE]
  ELSE IF e \in DOMAIN rl
  THEN [rl |-> [rl EXCEPT ![e].remaining = rl[e].remaining - 1],
        raised |-> FALSE]
  ELSE [rl |-> rl, raised |-> FALSE]

\* _update_rate_limit: the tracker after the call and whether int() raised.
\* hdr is [remaining, reset]: NONE for a header that is absent, MALFORMED for
\* one int() cannot parse.  int(remaining) is assigned before int(reset_time)
\* is evaluated.
update_rate_limit(rl, e, hdr) ==
  IF hdr.remaining # NONE /\ hdr.reset # NONE
  THEN IF hdr.remaining = MALFORMED
       THEN [rl |-> rl, raised |-> TRUE]
       ELSE IF hdr.reset = MALFORMED
       THEN [rl |-> [rl EXCEPT ![e].remaining = hdr.remaining],
             raised |-> TRUE]
       ELSE [rl |-> [rl EXCEPT ![e] = [remaining |-> hdr.remaining,
                                       reset_time |-> hdr.reset]],
             raised |-> FALSE]
  ELSE IF e \in DOMAIN rl
  THEN [rl |-> [rl EXCEPT ![e].remaining = Max(0, rl[e].remaining - 1)],
        raised |-> FALSE]
  ELSE [rl |-> rl, raised |-> FALSE]

\* ------------------------------------------------------------ dispatcher
DispatcherPcs == {"d_loop", "d_rate_wait", "d_call", "d_backoff"}

NoResponse == [status |-> "none", data |-> <<>>]

\* the kinds of remote action the bot performs
ActionKinds == {"tweet", "reply", "follow", "dm"}

\* what is observed of the successes of each kind: the calendar day of the
\* last one, how many succeeded on that day, when the last one succeeded and
\* how long after the one before
NoneDone ==
  [k \in ActionKinds |-> [day |-> NONE, count |-> 0, at |-> NONE, gap |-> NONE]]

record_done(d, k, now) ==
  [d EXCEPT ![k] = [day |-> Today(now),
                    count |-> IF @.day = Today(now) THEN @.count + 1 ELSE 1,
                    at |-> now,
                    gap |-> IF @.at = NONE THEN NONE ELSE now - @.at]]

\* what is observed of one dispatcher call, at its entry; st0 is the BotState
\* at the start of the action that makes the call, st the one at the call
NewObs(rl, w, st0, st) ==
  [ invocations |-> 0,     \* invocations of the operation in this call
    successes |-> 0,       \* invocations that returned successfully
    failures |-> 0,        \* invocations that ended in a backoff or an error
    observes |-> 0,        \* _update_rate_limit calls made
    nexp |-> 0,            \* exponential-backoff sleeps computed
    sleepKind |-> "none",  \* "rate", "reset" or "exp": the sleep under way
    quotaR |-> NONE,       \* reset time of the last quota-exceeded failure
    quotaNear |-> FALSE,   \* ... which was at most MAX_BACKOFF ahead
    quotaAt |-> NONE,      \* ... and the time of that failure
    quotaTries |-> 0,      \* ... and the attempt counter at that failure
    rlBefore |-> rl,       \* the tracker before the last check or observe
    checkedAt |-> NONE,    \* the time of the last _check_rate_limit
    checkWait |-> 0,       \* ... and the value it returned
    writes0 |-> w,         \* file writes at the entry of the dispatcher
    state0 |-> st0,        \* the BotState when the action started
    stateIn |-> st,        \* the BotState at the entry of the dispatcher
    action |-> "none",     \* the action the call is made for
    last |-> "none",       \* how the last action ended: "ok" or "failed"
    done |-> NoneDone ]    \* the remote actions that have succeeded so far

\* the call _api_request_with_backoff(e, func, ...), returning to r
EnterDispatcher(e, r) ==
  /\ calls < limits.calls
  /\ calls' = calls + 1
  /\ endpoint' = e
  /\ retries' = 0
  /\ backoff' = INITIAL_BACKOFF
  /\ wait_time' = 0
  /\ response' = NoResponse
  /\ ret' = r
  /\ pc' = "d_loop"

\* (mutant) the backoff doubles without the cap
next_backoff_uncapped(b) == b * 2

\* the backoff after a failure: min(backoff * 2, MAX_BACKOFF)
next_backoff(b) == Min(b * 2, MAX_BACKOFF)

\* the sleep before the retry of a quota-exceeded failure that reports reset
reset_wait(reset, now) ==
  Max(0, Min(reset - now + RATE_LIMIT_RESET_BUFFER, MAX_BACKOFF))

\* (mutant) the reset time is recorded, the remaining quota is left as it was
quota_exceeded_keeps_remaining(rl, e, reset) ==
  [rl EXCEPT ![e].reset_time = reset]

\* lines 288-289: the window after a quota-exceeded failure that reports reset
quota_exceeded(rl, e, reset) ==
  [rl EXCEPT ![e] = [remaining |-> 0, reset_time |-> reset]]

\* (mutant) the reported wait is slept in full
rate_wait_uncapped(w) == w

\* the sleep of a reported rate-limit wait: min(wait_time, MAX_BACKOFF)
rate_wait(w) == Min(w, MAX_BACKOFF)

\* the loop test: while retries <= MAX_RETRIES
\* (mutant) the loop does not test the attempt counter
loop_continues_always(r) == TRUE

loop_continues(r) == r <= MAX_RETRIES

\* lines 256-262: the loop test and the rate limit check
DispatcherLoop ==
  /\ pc = "d_loop"
  /\ loop_continues(retries)
  /\ LET c == check_rate_limit(rate_limits, endpoint, clock) IN
       /\ rate_limits' = c.rl
       /\ obs' = [obs EXCEPT !.rlBefore = rate_limits, !.checkedAt = clock,
                             !.checkWait = c.wait,
                             !.sleepKind = IF c.wait # 0 THEN "rate" ELSE "none"]
       /\ IF c.wait # 0
          THEN wait_time' = rate_wait(c.wait) /\ pc' = "d_rate_wait"
          ELSE wait_time' = 0 /\ pc' = "d_call"
  /\ UNCHANGED << calls, clock, state, file, writes, enable_follows, enable_dms,
                  cycles, events, limits, endpoint, retries, backoff, response, ret,
                  text, target >>

\* line 262: time.sleep(wait_time) of a rate-limit wait
RateLimitWait ==
  /\ pc = "d_rate_wait"
  /\ clock' = clock + wait_time
  /\ pc' = "d_call"
  /\ UNCHANGED << state, file, writes, rate_limits, enable_follows, enable_dms,
                  cycles, events, limits, dispVars, text, target, obs >>

\* lines 310-311: the loop has ended, return None
DispatcherGiveUp ==
  /\ pc = "d_loop"
  /\ ~loop_continues(retries)
  /\ response' = NoResponse
  /\ pc' = ret
  /\ UNCHANGED << calls, clock, state, file, writes, rate_limits, enable_follows,
                  enable_dms, cycles, events, limits, calls, endpoint, retries, backoff,
                  wait_time, ret, text, target, obs >>

\* what a successful remote call on an endpoint returns as its data
ResponseData(e) == IF e = "search" THEN FoundTweets ELSE { <<>> }

NoHeaders == [remaining |-> NONE, reset |-> NONE]

\* a response costs one event when it carries rate limit headers or is the
\* first failure of its call
Cost(fails, headers) ==
  IF headers \/ (fails /\ obs.failures = 0) THEN 1 ELSE 0
Affordable(fails, headers) == events + Cost(fails, headers) <= limits.events

\* the rate limit headers a successful response can carry
ResponseHeaders(now) ==
  { NoHeaders }
  \cup (IF Affordable(FALSE, TRUE)
        THEN [remaining : RemainingHeaders,
              reset : { now + o : o \in ResetOffsets }]
        ELSE {})
  \cup (IF Affordable(TRUE, TRUE)
        THEN { [remaining |-> MALFORMED, reset |-> now + 120],
               [remaining |-> 0, reset |-> MALFORMED] }
        ELSE {})

\* the x-rate-limit-reset header a quota-exceeded failure can carry
QuotaResets(now) ==
  (IF Affordable(TRUE, FALSE) THEN { NONE } ELSE {})
  \cup (IF Affordable(TRUE, TRUE)
        THEN { MALFORMED } \cup { now + o : o \in ResetOffsets }
        ELSE {})

\* lines 264-271 (and 299-308 when _update_rate_limit raises): the operation
\* returns a response
InvokeSuccess ==
  /\ pc = "d_call"
  /\ \E dur \in CallDurations, data \in ResponseData(endpoint) :
     \E hdr \in ResponseHeaders(clock + dur) :
       LET u == update_rate_limit(rate_limits, endpoint, hdr) IN
         /\ clock' = clock + dur
         /\ rate_limits' = u.rl
         /\ events' = events + Cost(u.raised, hdr # NoHeaders)
         /\ IF u.raised
            THEN /\ wait_time' = backoff
                 /\ backoff' = next_backoff(backoff)
                 /\ pc' = "d_backoff"
                 /\ UNCHANGED response
            ELSE /\ response' = [status |-> "ok", data |-> data]
                 /\ pc' = ret
                 /\ UNCHANGED << wait_time, backoff >>
         /\ obs' = [obs EXCEPT !.invocations = @ + 1, !.successes = @ + 1,
                               !.observes = @ + 1,
                               !.rlBefore = rate_limits,
                               !.failures = IF u.raised THEN @ + 1 ELSE @,
                               !.nexp = IF u.raised THEN @ + 1 ELSE @,
                               !.sleepKind = IF u.raised THEN "exp" ELSE "none"]
  /\ UNCHANGED << calls, limits, state, file, writes, enable_follows,
                  enable_dms, cycles, endpoint, retries, ret, text, target >>

\* lines 273-297: the operation raises tweepy.TooManyRequests
InvokeTooManyRequests ==
  /\ pc = "d_call"
  /\ \E dur \in CallDurations :
     \E reset \in QuotaResets(clock + dur) :
       LET now == clock + dur IN
         /\ clock' = now
         /\ events' = events + Cost(TRUE, reset # NONE)
         /\ CASE reset = NONE ->
                   /\ wait_time' = backoff
                   /\ backoff' = next_backoff(backoff)
                   /\ pc' = "d_backoff"
                   /\ obs' = [obs EXCEPT !.invocations = @ + 1,
                                         !.failures = @ + 1, !.nexp = @ + 1,
                                         !.sleepKind = "exp"]
                   /\ UNCHANGED << rate_limits, response >>
              [] reset = MALFORMED ->
                   \* int(reset_time) raises in the handler: the error leaves
                   \* _api_request_with_backoff
                   /\ response' = [status |-> "raised", data |-> <<>>]
                   /\ pc' = ret
                   /\ obs' = [obs EXCEPT !.invocations = @ + 1,
                                         !.failures = @ + 1]
                   /\ UNCHANGED << rate_limits, wait_time, backoff >>
              [] OTHER ->
                   /\ wait_time' = reset_wait(reset, now)
                   /\ rate_limits' = quota_exceeded(rate_limits, endpoint, reset)
                   /\ pc' = "d_backoff"
                   /\ obs' = [obs EXCEPT !.invocations = @ + 1,
                                         !.failures = @ + 1,
                                         !.sleepKind = "reset",
                                         !.quotaR = reset,
                                         !.quotaNear = (reset - now <= MAX_BACKOFF),
                                         !.quotaAt = now,
                                         !.quotaTries = retries]
                   /\ UNCHANGED << backoff, response >>
  /\ UNCHANGED << calls, limits, state, file, writes, enable_follows,
                  enable_dms, cycles, endpoint, retries, ret, text, target >>

\* lines 299-308: the operation raises another exception
InvokeError ==
  /\ pc = "d_call"
  /\ Affordable(TRUE, FALSE)
  /\ \E dur \in CallDurations : clock' = clock + dur
  /\ events' = events + Cost(TRUE, FALSE)
  /\ wait_time' = backoff
  /\ backoff' = next_backoff(backoff)
  /\ pc' = "d_backoff"
  /\ obs' = [obs EXCEPT !.invocations = @ + 1, !.failures = @ + 1,
                        !.nexp = @ + 1, !.sleepKind = "exp"]
  /\ UNCHANGED << calls, limits, state, file, writes, rate_limits,
                  enable_follows, enable_dms, cycles, endpoint, retries,
                  response, ret, text, target >>

\* lines 296-297 and 307-308: time.sleep(wait_time); retries += 1
BackoffSleep ==
  /\ pc = "d_backoff"
  /\ clock' = clock + wait_time
  /\ retries' = retries + 1
  /\ pc' = "d_loop"
  /\ UNCHANGED << calls, state, file, writes, rate_limits, enable_follows, enable_dms,
                  cycles, events, limits, endpoint, backoff, wait_time, response, ret,
                  text, target, obs >>

\* ------------------------------------------------------------ rotation
\* (mutant) the used list is kept when every item has been used
get_next_never_resets(pool, used) ==
  IF Len(pool) = 0 THEN { [item |-> NONE, used |-> used] }
  ELSE LET available == { pool[i] : i \in { j \in DOMAIN pool : pool[j] \notin Range(used) } }
           reset == available = {}
       IN { [item |-> c, used |-> Append(used, c)] :
              c \in IF reset THEN Range(pool) ELSE available }

\* (mutant) the used list is emptied when one item is still unused
get_next_resets_early(pool, used) ==
  IF Len(pool) = 0 THEN { [item |-> NONE, used |-> used] }
  ELSE LET available == { pool[i] : i \in { j \in DOMAIN pool : pool[j] \notin Range(used) } }
           reset == Cardinality(available) <= 1
       IN { [item |-> c, used |-> Append(IF reset THEN <<>> ELSE used, c)] :
              c \in IF reset THEN Range(pool) ELSE available }

\* (mutant) the choice is made among all items of the pool
get_next_unfiltered(pool, used) ==
  IF Len(pool) = 0 THEN { [item |-> NONE, used |-> used] }
  ELSE LET available == { pool[i] : i \in { j \in DOMAIN pool : pool[j] \notin Range(used) } }
           reset == available = {}
       IN { [item |-> c, used |-> Append(IF reset THEN <<>> ELSE used, c)] :
              c \in Range(pool) }

\* _get_next_tweet / _get_next_reply: every (item, used list) the call can
\* produce; the item is NONE when the pool is empty
get_next(pool, used) ==
  IF Len(pool) = 0 THEN { [item |-> NONE, used |-> used] }
  ELSE LET available == { pool[i] : i \in { j \in DOMAIN pool : pool[j] \notin Range(used) } }
           reset == available = {}
       IN { [item |-> c, used |-> Append(IF reset THEN <<>> ELSE used, c)] :
              c \in IF reset THEN Range(pool) ELSE available }

\* ------------------------------------------------------------ scheduling
\* (mutant) the interval since the last tweet must be exceeded, not reached
should_post_tweet_strict(st, now) ==
  IF st.tweets_posted_today >= TWEET_LIMIT_PER_DAY THEN FALSE
  ELSE IF st.last_tweet_time # NONE
  THEN now - st.last_tweet_time > TWEET_INTERVAL_HOURS * 3600
  ELSE TRUE

should_post_tweet(st, now) ==
  IF st.tweets_posted_today >= TWEET_LIMIT_PER_DAY THEN FALSE
  ELSE IF st.last_tweet_time # NONE
  THEN now - st.last_tweet_time >= TWEET_INTERVAL_HOURS * 3600
  ELSE TRUE

\* (mutant) replies are gated by the daily limit alone
should_find_and_reply_cap_only(st, now) ==
  ~(st.replies_sent_today >= REPLY_LIMIT_PER_DAY)

should_find_and_reply(st, now) ==
  IF st.replies_sent_today >= REPLY_LIMIT_PER_DAY THEN FALSE
  ELSE IF st.last_reply_time # NONE
  THEN now - st.last_reply_time >= REPLY_INTERVAL_MINUTES * 60
  ELSE TRUE

\* `if not response:` after the dispatcher has returned
failed(resp) == resp.status # "ok"

\* (mutant) a failed attempt is recorded as the time of the last tweet
post_tweet_result_stamps_failure(st, resp, now) ==
  IF failed(resp) THEN [state |-> [st EXCEPT !.last_tweet_time = now],
                        save |-> FALSE]
  ELSE [state |-> [st EXCEPT !.last_tweet_time = now,
                             !.tweets_posted_today = @ + 1],
        save |-> TRUE]

\* (mutant) the state is saved whether or not the call succeeded
post_tweet_result_always_saves(st, resp, now) ==
  IF failed(resp) THEN [state |-> st, save |-> TRUE]
  ELSE [state |-> [st EXCEPT !.last_tweet_time = now,
                             !.tweets_posted_today = @ + 1],
        save |-> TRUE]

\* post_tweet after the dispatcher has returned: the new state and whether it
\* is saved
post_tweet_result(st, resp, now) ==
  IF failed(resp) THEN [state |-> st, save |-> FALSE]
  ELSE [state |-> [st EXCEPT !.last_tweet_time = now,
                             !.tweets_posted_today = @ + 1],
        save |-> TRUE]

\* find_and_reply_to_tweets after the dispatcher has returned from the reply
reply_result(st, resp, now, tweet_id) ==
  IF failed(resp) THEN [state |-> st, save |-> FALSE]
  ELSE [state |-> [st EXCEPT !.last_reply_time = now,
                             !.replies_sent_today = @ + 1,
                             !.replied_to_tweets = Append(@, tweet_id)],
        save |-> TRUE]

\* follow_users after the dispatcher has returned from the follow
follow_result(st, resp, user_id) ==
  IF failed(resp) THEN [state |-> st, save |-> FALSE]
  ELSE [state |-> [st EXCEPT !.follows_today = @ + 1,
                             !.followed_users = Append(@, user_id)],
        save |-> TRUE]

\* (mutant) the direct message is counted but its recipient is not recorded
dm_result_no_record(st, resp, user_id) ==
  IF failed(resp) THEN [state |-> st, save |-> FALSE]
  ELSE [state |-> [st EXCEPT !.dms_sent_today = @ + 1], save |-> TRUE]

\* send_dms after the dispatcher has returned from the direct message
dm_result(st, resp, user_id) ==
  IF failed(resp) THEN [state |-> st, save |-> FALSE]
  ELSE [state |-> [st EXCEPT !.dms_sent_today = @ + 1,
                             !.dm_sent_users = Append(@, user_id)],
        save |-> TRUE]

\* (mutant) an action that fails ends the cycle
Finish_aborts(r, next) ==
  /\ state' = r.state
  /\ IF r.save
     THEN file' = << r.state >> /\ writes' = writes + 1
     ELSE UNCHANGED << file, writes >>
  /\ obs' = [obs EXCEPT !.last = IF r.save THEN "ok" ELSE "failed",
                        !.done = IF r.save THEN record_done(@, obs.action, clock)
                                 ELSE @]
  /\ text' = NONE
  /\ target' = NONE
  /\ pc' = IF r.save THEN next ELSE "cycle_end"

\* the effect of an action's end on the state, the file and the observation
Finish(r, next) ==
  /\ state' = r.state
  /\ IF r.save
     THEN file' = << r.state >> /\ writes' = writes + 1
     ELSE UNCHANGED << file, writes >>
  /\ obs' = [obs EXCEPT !.last = IF r.save THEN "ok" ELSE "failed",
                        !.done = IF r.save THEN record_done(@, obs.action, clock)
                                 ELSE @]
  /\ text' = NONE
  /\ target' = NONE
  /\ pc' = next

\* ------------------------------------------------------------ the cycle
\* run_once, line 567: _check_reset_daily_counters, which saves when it resets
RunOnce ==
  /\ pc = "cycle_start"
  /\ cycles < limits.cycles
  /\ cycles' = cycles + 1
  /\ state' = reset_daily_counters(state, clock)
  /\ IF state' # state
     THEN file' = << state' >> /\ writes' = writes + 1
     ELSE UNCHANGED << file, writes >>
  /\ pc' = "tweet_gate"
  /\ UNCHANGED << clock, rate_limits, enable_follows, enable_dms, events, limits,
                  dispVars, text, target, obs >>

\* lines 570-571 and 345-357: the tweet is due; pick it and dispatch it
PostTweet ==
  /\ pc = "tweet_gate"
  /\ should_post_tweet(state, clock)
  /\ \E c \in get_next(tweets, state.used_tweets) :
       /\ state' = [state EXCEPT !.used_tweets = c.used]
       /\ text' = c.item
       /\ obs' = [NewObs(rate_limits, writes, state, state') EXCEPT !.action = "tweet",
                   !.done = obs.done]
       /\ IF c.item = NONE
          THEN pc' = "reply_gate" /\ UNCHANGED dispVars
          ELSE EnterDispatcher("tweet", "tweet_ret")
  /\ UNCHANGED << clock, file, writes, rate_limits, enable_follows, enable_dms,
                  cycles, events, limits, target >>

SkipTweet ==
  /\ pc = "tweet_gate"
  /\ ~should_post_tweet(state, clock)
  /\ pc' = "reply_gate"
  /\ UNCHANGED << clock, state, file, writes, rate_limits, enable_follows,
                  enable_dms, cycles, events, limits, dispVars, text, target, obs >>

\* lines 359-375: the dispatcher has returned to post_tweet
PostTweetReturn ==
  /\ pc = "tweet_ret"
  /\ Finish(post_tweet_result(state, response, clock), "reply_gate")
  /\ UNCHANGED << clock, rate_limits, enable_follows, enable_dms, cycles,
                  events, limits, dispVars >>

\* lines 574-575 and 379-392: replies are due; search for tweets
FindAndReply ==
  /\ pc = "reply_gate"
  /\ should_find_and_reply(state, clock)
  /\ obs' = [NewObs(rate_limits, writes, state, state) EXCEPT !.action = "search",
                   !.done = obs.done]
  /\ EnterDispatcher("search", "reply_found")
  /\ UNCHANGED << clock, state, file, writes, rate_limits, enable_follows,
                  enable_dms, cycles, events, limits, text, target >>

SkipReply ==
  /\ pc = "reply_gate"
  /\ ~should_find_and_reply(state, clock)
  /\ pc' = "follow_gate"
  /\ UNCHANGED << clock, state, file, writes, rate_limits, enable_follows,
                  enable_dms, cycles, events, limits, dispVars, text, target, obs >>

\* the tweets of a search the reply loop does not skip (lines 399-409)
reply_candidates(st, data) ==
  SelectSeq(data, LAMBDA t : /\ t.id \notin Range(st.replied_to_tweets)
                             /\ ~(t.likes < MIN_LIKES_THRESHOLD))

\* lines 394-417: the search has returned; take the first suitable tweet and
\* pick the reply text
ReplyFound ==
  /\ pc = "reply_found"
  /\ LET found == IF failed(response) THEN <<>> ELSE response.data
         cand == reply_candidates(state, found)
     IN IF cand = <<>>
        THEN /\ pc' = "follow_gate"
             /\ UNCHANGED << state, text, target >>
        ELSE \E c \in get_next(replies, state.used_replies) :
               /\ state' = [state EXCEPT !.used_replies = c.used]
               /\ text' = c.item
               /\ target' = cand[1].id
               /\ pc' = IF c.item = NONE THEN "follow_gate" ELSE "reply_delay"
  /\ UNCHANGED << clock, file, writes, rate_limits, enable_follows, enable_dms,
                  cycles, events, limits, dispVars, obs >>

\* lines 417-425: the delay before the reply, then the reply is dispatched
ReplyDelay ==
  /\ pc = "reply_delay"
  /\ \E d \in ActionDelays : clock' = clock + d
  /\ obs' = [NewObs(rate_limits, writes, obs.state0, state) EXCEPT !.action = "reply",
                   !.done = obs.done]
  /\ EnterDispatcher("tweet", "reply_ret")
  /\ UNCHANGED << state, file, writes, rate_limits, enable_follows, enable_dms,
                  cycles, events, limits, text, target >>

\* (mutant) after the reply the loop over the tweets found goes on: the
\* reply part of the cycle is entered again
ReplyReturn_goes_on ==
  /\ pc = "reply_ret"
  /\ Finish(reply_result(state, response, clock, target), "reply_gate")
  /\ UNCHANGED << clock, rate_limits, enable_follows, enable_dms, cycles,
                  events, limits, dispVars >>

\* lines 427-438: the dispatcher has returned from the reply
ReplyReturn ==
  /\ pc = "reply_ret"
  /\ Finish(reply_result(state, response, clock, target), "follow_gate")
  /\ UNCHANGED << clock, rate_limits, enable_follows, enable_dms, cycles,
                  events, limits, dispVars >>

\* (mutant) follow_users without its daily limit
should_follow_no_cap(st, enabled) == enabled

\* the gate of follow_users: the toggle and the daily limit (lines 449-454, 578)
should_follow(st, enabled) ==
  enabled /\ ~(st.follows_today >= FOLLOW_LIMIT_PER_DAY)

\* lines 578-579 and 456-469: follows are enabled; search for users
FollowUsers ==
  /\ pc = "follow_gate"
  /\ should_follow(state, enable_follows)
  /\ obs' = [NewObs(rate_limits, writes, state, state) EXCEPT !.action = "search",
                   !.done = obs.done]
  /\ EnterDispatcher("search", "follow_found")
  /\ UNCHANGED << clock, state, file, writes, rate_limits, enable_follows,
                  enable_dms, cycles, events, limits, text, target >>

SkipFollow ==
  /\ pc = "follow_gate"
  /\ ~should_follow(state, enable_follows)
  /\ pc' = "dm_gate"
  /\ UNCHANGED << clock, state, file, writes, rate_limits, enable_follows,
                  enable_dms, cycles, events, limits, dispVars, text, target, obs >>

\* the tweets of a search whose author is not followed yet (lines 476-481)
follow_candidates(st, data) ==
  SelectSeq(data, LAMBDA t : t.author_id \notin Range(st.followed_users))

\* lines 471-484: the search has returned; take the first user not followed
FollowFound ==
  /\ pc = "follow_found"
  /\ LET found == IF failed(response) THEN <<>> ELSE response.data
         cand == follow_candidates(state, found)
     IN IF cand = <<>>
        THEN pc' = "dm_gate" /\ UNCHANGED target
        ELSE target' = cand[1].author_id /\ pc' = "follow_delay"
  /\ UNCHANGED << clock, state, file, writes, rate_limits, enable_follows,
                  enable_dms, cycles, events, limits, dispVars, text, obs >>

\* lines 484-491: the delay before the follow, then the follow is dispatched
FollowDelay ==
  /\ pc = "follow_delay"
  /\ \E d \in ActionDelays : clock' = clock + d
  /\ obs' = [NewObs(rate_limits, writes, obs.state0, state) EXCEPT !.action = "follow",
                   !.done = obs.done]
  /\ EnterDispatcher("follow", "follow_ret")
  /\ UNCHANGED << state, file, writes, rate_limits, enable_follows, enable_dms,
                  cycles, events, limits, text, target >>

\* lines 493-510: the dispatcher has returned from the follow
FollowReturn ==
  /\ pc = "follow_ret"
  /\ Finish(follow_result(state, response, target), "dm_gate")
  /\ UNCHANGED << clock, rate_limits, enable_follows, enable_dms, cycles,
                  events, limits, dispVars >>

\* (mutant) direct messages are spaced like replies
should_dm_spaced(st, enabled) ==
  /\ enabled
  /\ ~(st.dms_sent_today >= DM_LIMIT_PER_DAY)
  /\ \/ obs.done["dm"].at = NONE
     \/ clock - obs.done["dm"].at >= REPLY_INTERVAL_MINUTES * 60

\* the gate of send_dms: the toggle and the daily limit (lines 514-519, 582)
should_dm(st, enabled) ==
  enabled /\ ~(st.dms_sent_today >= DM_LIMIT_PER_DAY)

\* the users followed and not yet sent a direct message (lines 523-526)
potential_users(st) ==
  { u \in Range(st.followed_users) : u \notin Range(st.dm_sent_users) }

\* lines 582-583 and 521-538: pick a user and a text
SendDms ==
  /\ pc = "dm_gate"
  /\ should_dm(state, enable_dms)
  /\ obs' = [NewObs(rate_limits, writes, state, state) EXCEPT !.action = "dm",
                   !.done = obs.done]
  /\ IF potential_users(state) = {} \/ Len(dms) = 0
     THEN pc' = "cycle_end" /\ UNCHANGED << text, target >>
     ELSE /\ \E u \in potential_users(state) : target' = u
          /\ \E i \in DOMAIN dms : text' = dms[i]
          /\ pc' = "dm_delay"
  /\ UNCHANGED << clock, state, file, writes, rate_limits, enable_follows,
                  enable_dms, cycles, events, limits, dispVars >>

SkipDms ==
  /\ pc = "dm_gate"
  /\ ~should_dm(state, enable_dms)
  /\ pc' = "cycle_end"
  /\ UNCHANGED << clock, state, file, writes, rate_limits, enable_follows,
                  enable_dms, cycles, events, limits, dispVars, text, target, obs >>

\* lines 541-547: the delay before the message, then it is dispatched
DmDelay ==
  /\ pc = "dm_delay"
  /\ \E d \in DmDelays : clock' = clock + d
  /\ obs' = [NewObs(rate_limits, writes, obs.state0, state) EXCEPT !.action = "dm",
                   !.done = obs.done]
  /\ EnterDispatcher("dm", "dm_ret")
  /\ UNCHANGED << state, file, writes, rate_limits, enable_follows, enable_dms,
                  cycles, events, limits, text, target >>

\* lines 549-563: the dispatcher has returned from the direct message
DmReturn ==
  /\ pc = "dm_ret"
  /\ Finish(dm_result(state, response, target), "cycle_end")
  /\ UNCHANGED << clock, rate_limits, enable_follows, enable_dms, cycles,
                  events, limits, dispVars >>

\* run_forever, lines 593-597: the sleep between two cycles
\* (mutant) run_forever leaves its loop after the first sleep
CycleSleep_once ==
  /\ pc = "cycle_end"
  /\ cycles < limits.cycles
  /\ \E g \in CycleGaps : clock' = clock + g
  /\ pc' = "stopped"
  /\ UNCHANGED << state, file, writes, rate_limits, enable_follows, enable_dms,
                  cycles, events, limits, dispVars, text, target, obs >>

CycleSleep ==
  /\ pc = "cycle_end"
  /\ cycles < limits.cycles
  /\ \E g \in CycleGaps : clock' = clock + g
  /\ pc' = "cycle_start"
  /\ UNCHANGED << state, file, writes, rate_limits, enable_follows, enable_dms,
                  cycles, events, limits, dispVars, text, target, obs >>

\* ------------------------------------------------------------ specification
\* how a run starts: the feature toggles (enable_follows, enable_dms) and the
\* document in bot_state.json.  Either the defaults of main.py and no file, or
\* both features enabled and the document saved after a first follow.
Starts(now) ==
  { [follows |-> FALSE, dms |-> FALSE, file |-> <<>>],
    [follows |-> TRUE, dms |-> TRUE,
     file |-> << [DefaultState(now) EXCEPT !.follows_today = 1,
                                           !.followed_users = << 101 >>] >>] }

\* (mutant) after a file that cannot be parsed the bot takes the time of its
\* start for the time of its last tweet
load_state_stamps_start(f, now) ==
  IF f = <<>> THEN DefaultState(now)
  ELSE IF f[1] = Unparseable
  THEN [DefaultState(now) EXCEPT !.last_tweet_time = now]
  ELSE json_load(json_dump(f[1]))

\* _load_state: the default state without a file or with a file that cannot
\* be parsed, else the state read from the document; the file variable holds
\* the state _save_state was called with, the document is its json.dump
load_state(f, now) ==
  IF f = <<>> THEN DefaultState(now)
  ELSE IF f[1] = Unparseable THEN DefaultState(now)
  ELSE json_load(json_dump(f[1]))

\* the bot after __init__
Init ==
  /\ pc = "cycle_start"
  /\ clock \in StartTimes
  /\ \E s \in Starts(clock) :
       /\ enable_follows = s.follows
       /\ enable_dms = s.dms
       /\ file = s.file
  /\ state = reset_daily_counters(load_state(file, clock), clock)
  /\ writes = 0
  /\ rate_limits = InitialRateLimits(clock)
  /\ cycles = 0
  /\ events = 0
  /\ limits = [events |-> MaxEvents, calls |-> MaxCalls, cycles |-> MaxCycles]
  /\ calls = 0
  /\ endpoint = "tweet"
  /\ retries = 0
  /\ backoff = INITIAL_BACKOFF
  /\ wait_time = 0
  /\ response = NoResponse
  /\ ret = "cycle_start"
  /\ text = NONE
  /\ target = NONE
  /\ obs = NewObs(rate_limits, 0, state, state)

Next ==
  \/ RunOnce
  \/ PostTweet \/ SkipTweet \/ PostTweetReturn
  \/ FindAndReply \/ SkipReply \/ ReplyFound \/ ReplyDelay \/ ReplyReturn
  \/ FollowUsers \/ SkipFollow \/ FollowFound \/ FollowDelay \/ FollowReturn
  \/ SendDms \/ SkipDms \/ DmDelay \/ DmReturn
  \/ CycleSleep
  \/ DispatcherLoop \/ RateLimitWait \/ DispatcherGiveUp
  \/ InvokeSuccess \/ InvokeTooManyRequests \/ InvokeError \/ BackoffSleep

Spec == Init /\ [][Next]_vars


\* ------------------------------------------------ one dispatcher call
\* the states of an endpoint's window a dispatcher call can start from: as
\* constructed, with one request left, exhausted with the reset ahead, and
\* exhausted with the reset past
TrackerStates(e, now) ==
  { [remaining |-> Capacity(e), reset_time |-> now],
    [remaining |-> 1, reset_time |-> now + 100],
    [remaining |-> 0, reset_time |-> now + 100],
    [remaining |-> 0, reset_time |-> now - 10] }

\* the bot at the entry of _api_request_with_backoff, called by post_tweet,
\* find_and_reply_to_tweets (the search), follow_users (the follow) or send_dms
Followed101 ==
  [DefaultState(0) EXCEPT !.follows_today = 1, !.followed_users = << 101 >>]

DispatcherStarts ==
  { [endpoint |-> "tweet", ret |-> "tweet_ret", action |-> "tweet",
     state0 |-> DefaultState(0),
     state |-> [DefaultState(0) EXCEPT !.used_tweets = << 1 >>],
     file |-> <<>>, text |-> 1, target |-> NONE],
    [endpoint |-> "search", ret |-> "reply_found", action |-> "search",
     state0 |-> DefaultState(0), state |-> DefaultState(0),
     file |-> <<>>, text |-> NONE, target |-> NONE],
    [endpoint |-> "follow", ret |-> "follow_ret", action |-> "follow",
     state0 |-> Followed101, state |-> Followed101,
     file |-> << Followed101 >>, text |-> NONE, target |-> 102],
    [endpoint |-> "dm", ret |-> "dm_ret", action |-> "dm",
     state0 |-> Followed101, state |-> Followed101,
     file |-> << Followed101 >>, text |-> 21, target |-> 101] }

DispatcherInit ==
  /\ pc = "d_loop"
  /\ clock = 1000
  /\ \E s \in DispatcherStarts :
       /\ endpoint = s.endpoint
       /\ ret = s.ret
       /\ state = s.state
       /\ file = s.file
       /\ text = s.text
       /\ target = s.target
       /\ \E w \in TrackerStates(s.endpoint, clock) :
            rate_limits = [InitialRateLimits(0) EXCEPT ![s.endpoint] = w]
       /\ obs = [NewObs(rate_limits, 0, s.state0, s.state) EXCEPT !.action = s.action]
  /\ writes = 0
  /\ enable_follows = TRUE
  /\ enable_dms = TRUE
  /\ cycles = 1
  /\ events = 0
  /\ limits = [events |-> MAX_RETRIES + 1, calls |-> 1, cycles |-> 1]
  /\ calls = 1
  /\ retries = 0
  /\ backoff = INITIAL_BACKOFF
  /\ wait_time = 0
  /\ response = NoResponse

DispatcherNext ==
  \/ DispatcherLoop \/ RateLimitWait \/ DispatcherGiveUp
  \/ InvokeSuccess \/ InvokeTooManyRequests \/ InvokeError \/ BackoffSleep
  \/ PostTweetReturn \/ ReplyFound \/ FollowReturn \/ DmReturn

DispatcherSpec == DispatcherInit /\ [][DispatcherNext]_vars


\* ------------------------------------------------ the tracker alone
\* operations on self.rate_limits in one run of the tracker
MaxTrackerOps == 3

\* seconds that pass between two operations on the tracker
TrackerTicks == {1, 1000}

\* the headers of a response handed to _update_rate_limit: none, one of the
\* two, both, and both with one that int() cannot parse
TrackerHeaders(now) ==
  { NoHeaders,
    [remaining |-> 7, reset |-> NONE],
    [remaining |-> NONE, reset |-> now + 120],
    [remaining |-> MALFORMED, reset |-> now + 120],
    [remaining |-> 0, reset |-> MALFORMED] }
  \cup [remaining : RemainingHeaders, reset : { now + o : o \in ResetOffsets }]

\* both headers are present and are integers
FullHeaders(hdr) ==
  /\ hdr.remaining \notin {NONE, MALFORMED}
  /\ hdr.reset \notin {NONE, MALFORMED}

\* the variables the tracker does not use
trackerIdle == << pc, state, file, writes, enable_follows, enable_dms, cycles,
                  events, limits, retries, backoff, wait_time, response, ret,
                  text, target >>

\* what is observed of the last operation on the tracker; lastFull[e] is the
\* last response with both headers observed for e, as long as observes with
\* both headers are all that has happened to e since, and fullCount[e] counts
\* them
TrackerObs(op, e, hdr, w, rl, lastFull, fullCount) ==
  [ op |-> op, e |-> e, hdr |-> hdr, wait |-> w, rlBefore |-> rl,
    lastFull |-> lastFull, fullCount |-> fullCount ]

NoFull == [e \in Endpoints |-> NoHeaders]
NoCount == [e \in Endpoints |-> 0]

\* _check_rate_limit(e)
TrackerCheck ==
  /\ calls < MaxTrackerOps
  /\ \E e \in Endpoints :
       LET c == check_rate_limit(rate_limits, e, clock)
           changed == c.rl # rate_limits
       IN /\ rate_limits' = c.rl
          /\ endpoint' = e
          /\ obs' = TrackerObs("check", e, NoHeaders, c.wait, rate_limits,
                      IF changed THEN [obs.lastFull EXCEPT ![e] = NoHeaders]
                      ELSE obs.lastFull,
                      IF changed THEN [obs.fullCount EXCEPT ![e] = 0]
                      ELSE obs.fullCount)
  /\ calls' = calls + 1
  /\ UNCHANGED << clock, trackerIdle >>

\* _update_rate_limit(e, response)
TrackerObserve ==
  /\ calls < MaxTrackerOps
  /\ \E e \in Endpoints, hdr \in TrackerHeaders(clock) :
       LET u == update_rate_limit(rate_limits, e, hdr) IN
         /\ rate_limits' = u.rl
         /\ endpoint' = e
         /\ obs' = TrackerObs(IF u.raised THEN "observe_raised" ELSE "observe",
                     e, hdr, 0, rate_limits,
                     [obs.lastFull EXCEPT
                        ![e] = IF FullHeaders(hdr) THEN hdr ELSE NoHeaders],
                     [obs.fullCount EXCEPT
                        ![e] = IF FullHeaders(hdr) THEN @ + 1 ELSE 0])
  /\ calls' = calls + 1
  /\ UNCHANGED << clock, trackerIdle >>

\* lines 288-289: a quota-exceeded failure that reports its reset time
TrackerQuotaExceeded ==
  /\ calls < MaxTrackerOps
  /\ \E e \in Endpoints, o \in ResetOffsets :
       /\ rate_limits' = quota_exceeded(rate_limits, e, clock + o)
       /\ endpoint' = e
       /\ obs' = TrackerObs("quota", e, [remaining |-> NONE, reset |-> clock + o],
                            0, rate_limits,
                            [obs.lastFull EXCEPT ![e] = NoHeaders],
                            [obs.fullCount EXCEPT ![e] = 0])
  /\ calls' = calls + 1
  /\ UNCHANGED << clock, trackerIdle >>

\* time passes between two operations
TrackerTick ==
  /\ calls < MaxTrackerOps
  /\ \E d \in TrackerTicks : clock' = clock + d
  /\ calls' = calls + 1
  /\ UNCHANGED << rate_limits, endpoint, obs, trackerIdle >>

TrackerInit ==
  /\ clock = 1000
  /\ \E e \in Endpoints : \E w \in TrackerStates(e, clock) :
       /\ endpoint = e
       /\ rate_limits = [InitialRateLimits(0) EXCEPT ![e] = w]
  /\ obs = TrackerObs("none", endpoint, NoHeaders, 0, rate_limits, NoFull, NoCount)
  /\ calls = 0
  /\ pc = "tracker"
  /\ state = DefaultState(0)
  /\ file = <<>>
  /\ writes = 0
  /\ enable_follows = FALSE
  /\ enable_dms = FALSE
  /\ cycles = 0
  /\ events = 0
  /\ limits = [events |-> 0, calls |-> 0, cycles |-> 0]
  /\ retries = 0
  /\ backoff = INITIAL_BACKOFF
  /\ wait_time = 0
  /\ response = NoResponse
  /\ ret = "tracker"
  /\ text = NONE
  /\ target = NONE

TrackerNext ==
  \/ TrackerCheck \/ TrackerObserve \/ TrackerQuotaExceeded \/ TrackerTick

TrackerSpec == TrackerInit /\ [][TrackerNext]_vars


\* ------------------------------------------------ the bot near its caps
\* calls of _api_request_with_backoff and cycles in one run near the caps
MaxCapCalls == 7
MaxCapCycles == 2
\* a run near the caps has at most one response that carries headers or is
\* the first failure of its call
CapEvents == Min(MaxEvents, 1)

\* the clock when the bot is constructed: the middle of day 0
CapStartTimes == {50000}

\* the documents in bot_state.json such a run starts from, both features
\* enabled: one action short of every cap, with the last tweet exactly
\* TWEET_INTERVAL_HOURS ago and the last reply one second short of
\* REPLY_INTERVAL_MINUTES ago; at every cap, with the last tweet and reply
\* long ago; and two users followed and no direct message sent yet
CapStarts(now) ==
  { [follows |-> TRUE, dms |-> TRUE,
     file |-> << [DefaultState(now) EXCEPT
                    !.tweets_posted_today = 4,
                    !.last_tweet_time = now - 14400,
                    !.replies_sent_today = 23,
                    !.last_reply_time = now - 1799,
                    !.follows_today = 19,
                    !.followed_users = << 101 >>,
                    !.dms_sent_today = 4,
                    !.used_tweets = << 1 >>,
                    !.used_replies = << 11 >>] >>],
    [follows |-> TRUE, dms |-> TRUE,
     file |-> << [DefaultState(now) EXCEPT
                    !.tweets_posted_today = 5,
                    !.last_tweet_time = now - 40000,
                    !.replies_sent_today = 24,
                    !.last_reply_time = now - 40000,
                    !.follows_today = 20,
                    !.followed_users = << 101 >>,
                    !.dms_sent_today = 5] >>],
    [follows |-> FALSE, dms |-> TRUE,
     file |-> << [DefaultState(now) EXCEPT
                    !.last_tweet_time = now - 14399,
                    !.last_reply_time = now - 1800,
                    !.follows_today = 2,
                    !.followed_users = << 101, 102 >>] >>] }

\* the process ends after a cycle and a new one is started later (the
\* one-shot runner): __init__ loads the state from the file, resets the
\* daily counters (saving when it does) and builds a fresh tracker
Restart ==
  /\ pc = "cycle_end"
  /\ cycles < limits.cycles
  /\ \E g \in CycleGaps : clock' = clock + g
  /\ state' = reset_daily_counters(load_state(file, clock'), clock')
  /\ IF state' # load_state(file, clock')
     THEN file' = << state' >> /\ writes' = writes + 1
     ELSE UNCHANGED << file, writes >>
  /\ rate_limits' = InitialRateLimits(clock')
  /\ pc' = "cycle_start"
  /\ UNCHANGED << enable_follows, enable_dms, cycles, events, limits, dispVars,
                  text, target, obs >>

CapInit ==
  /\ pc = "cycle_start"
  /\ clock \in CapStartTimes
  /\ \E s \in CapStarts(clock) :
       /\ enable_follows = s.follows
       /\ enable_dms = s.dms
       /\ file = s.file
  /\ state = reset_daily_counters(load_state(file, clock), clock)
  /\ writes = 0
  /\ rate_limits = InitialRateLimits(clock)
  /\ cycles = 0
  /\ events = 0
  /\ limits = [events |-> CapEvents, calls |-> MaxCapCalls, cycles |-> MaxCapCycles]
  /\ calls = 0
  /\ endpoint = "tweet"
  /\ retries = 0
  /\ backoff = INITIAL_BACKOFF
  /\ wait_time = 0
  /\ response = NoResponse
  /\ ret = "cycle_start"
  /\ text = NONE
  /\ target = NONE
  /\ obs = NewObs(rate_limits, 0, state, state)

CapNext == Next \/ Restart

CapSpec == CapInit /\ [][CapNext]_vars


\* ------------------------------------------------ a day of cycles
\* cycles and calls of _api_request_with_backoff in one run over a day
MaxDayCycles == 6
MaxDayCalls == 11

\* the clock when the bot is constructed: one second before midnight
DayStartTimes == {86399}

\* the bot as main.py runs it: no state file or one that cannot be parsed,
\* follows and direct messages disabled, every remote call answered without
\* error and without headers
DayInit ==
  /\ pc = "cycle_start"
  /\ clock \in DayStartTimes
  /\ enable_follows = FALSE
  /\ enable_dms = FALSE
  /\ file \in { <<>>, << Unparseable >> }
  /\ state = reset_daily_counters(load_state(file, clock), clock)
  /\ writes = 0
  /\ rate_limits = InitialRateLimits(clock)
  /\ cycles = 0
  /\ events = 0
  /\ limits = [events |-> 0, calls |-> MaxDayCalls, cycles |-> MaxDayCycles]
  /\ calls = 0
  /\ endpoint = "tweet"
  /\ retries = 0
  /\ backoff = INITIAL_BACKOFF
  /\ wait_time = 0
  /\ response = NoResponse
  /\ ret = "cycle_start"
  /\ text = NONE
  /\ target = NONE
  /\ obs = NewObs(rate_limits, 0, state, state)

\* the steps of such a run
DayNext ==
  \/ RunOnce
  \/ PostTweet \/ SkipTweet \/ PostTweetReturn
  \/ FindAndReply \/ SkipReply \/ ReplyFound \/ ReplyDelay \/ ReplyReturn
  \/ SkipFollow \/ SkipDms
  \/ CycleSleep \/ Restart
  \/ DispatcherLoop \/ InvokeSuccess

DaySpec == DayInit /\ [][DayNext]_vars


\* ------------------------------------------------------------ claims
\* where the dispatcher returns to
ReturnPcs == {"tweet_ret", "reply_ret", "follow_ret", "dm_ret"}
SearchReturnPcs == {"reply_found", "follow_found"}

\* C1: while _api_request_with_backoff runs (its rate-limit waits and backoff
\* sleeps included) the state file is not written, and outside the daily
\* reset the file is written only by an action whose remote call has
\* returned successfully.
C1_FileWrittenOnlyAfterSuccess ==
  [][ /\ (pc \in DispatcherPcs => file' = file /\ writes' = writes)
      /\ (pc' \in DispatcherPcs => writes' = obs'.writes0)
      /\ ((file' # file \/ writes' # writes) /\ pc # "cycle_start"
            => /\ pc \in ReturnPcs
               /\ response.status = "ok"
               /\ obs.successes >= 1) ]_vars

\* a file written after a dispatcher call that had to retry
C1_Witness ==
  /\ obs.last = "ok"
  /\ obs.failures >= 1
  /\ writes = obs.writes0 + 1
  /\ file = << state >>

\* C2 (as claimed): when the dispatcher returns Failure for a post, reply,
\* follow or DM, the whole BotState, used_tweets and used_replies included,
\* is what it was before the action started.
C2_FailureLeavesStateUnchanged ==
  [][ (pc \in ReturnPcs /\ response.status = "none"
        => (state' = obs.state0)) ]_vars

\* C3 (as claimed): one dispatcher call invokes the operation at most
\* MAX_RETRIES times, and Failure comes right after the MAX_RETRIES-th
\* invocation's backoff.
C3_AtMostMaxRetriesInvocations ==
  /\ obs.invocations <= MAX_RETRIES
  /\ (pc \in ReturnPcs \cup SearchReturnPcs /\ response.status = "none"
        /\ obs.invocations > 0
      => obs.invocations = MAX_RETRIES)

\* C4: the k-th exponential-backoff sleep of a dispatcher call lasts
\* min(INITIAL_BACKOFF * 2^(k-1), MAX_BACKOFF) seconds, the backoff value is
\* never above MAX_BACKOFF, and no sleep of the dispatcher is negative or
\* longer than MAX_BACKOFF.
C4_BackoffSleeps ==
  /\ backoff <= MAX_BACKOFF
  /\ (pc = "d_backoff" /\ obs.sleepKind = "exp"
      => /\ obs.nexp >= 1
         /\ wait_time = Min(INITIAL_BACKOFF * 2^(obs.nexp - 1), MAX_BACKOFF))
  /\ (pc \in {"d_backoff", "d_rate_wait"}
      => 0 <= wait_time /\ wait_time <= MAX_BACKOFF)

\* the sixth exponential backoff of a call: 1920 s, the backoff value capped
C4_Witness ==
  /\ pc = "d_backoff"
  /\ obs.sleepKind = "exp"
  /\ obs.nexp = 6
  /\ wait_time = 1920
  /\ backoff = MAX_BACKOFF

\* C5 (as claimed): once an invocation has returned successfully the tracker
\* is updated by exactly one observe, the result is returned and the
\* operation is not invoked again in that call.
C5_SuccessEndsTheCall ==
  obs.successes >= 1
    => /\ pc \notin DispatcherPcs
       /\ response.status = "ok"
       /\ obs.successes = 1
       /\ obs.observes = 1

\* C6: a quota-exceeded failure that reports the reset time R sets the window
\* to remaining = 0, resetAt = R and increments the attempt counter; when R
\* is at most MAX_BACKOFF ahead no later invocation of the call happens
\* before R; and the bot state and the file are not changed while the call
\* is in progress.
C6_QuotaExceededWaitsForReset ==
  [][ /\ (pc = "d_backoff" /\ obs.sleepKind = "reset"
          => /\ rate_limits[endpoint] =
                  [remaining |-> 0, reset_time |-> obs.quotaR]
             /\ retries' = obs.quotaTries + 1)
      /\ (pc' = "d_call" /\ obs'.quotaNear => clock' >= obs'.quotaR)
      /\ (pc \in DispatcherPcs
          => state' = obs.stateIn /\ file' = file) ]_vars

\* scenario C: quota exceeded with R = now + 120 s, then a success
C6_Witness ==
  /\ pc \in ReturnPcs
  /\ response.status = "ok"
  /\ obs.invocations = 2
  /\ obs.quotaR = obs.quotaAt + 120
  /\ clock >= obs.quotaAt + 120
  /\ state = obs.stateIn

\* C7 (as claimed): every dispatcher call returns the operation's result or
\* Failure, no error leaves it, and Failure is returned only after the retry
\* ceiling has been reached.
C7_ResultOrFailure ==
  /\ response.status \in {"ok", "none"}
  /\ (pc \in ReturnPcs \cup SearchReturnPcs /\ response.status = "none"
      => retries > MAX_RETRIES)

\* the tracker as _check_rate_limit found it, for the endpoint of the call
Before == obs.rlBefore[endpoint]
\* the process is just after a _check_rate_limit of this call
Checked == pc \in {"d_rate_wait", "d_call"} /\ obs.checkedAt # NONE

\* C8: with remaining = 0 and now < resetAt + buffer, _check_rate_limit
\* returns the strictly positive wait resetAt - now + buffer and leaves the
\* tracker unchanged.
C8_LimitedWait ==
  Checked /\ Before.remaining = 0
          /\ obs.checkedAt < Before.reset_time + 5
    => /\ obs.checkWait = Before.reset_time - obs.checkedAt + 5
       /\ obs.checkWait > 0
       /\ rate_limits = obs.rlBefore

\* a reported wait of 105 s: the reset is 100 s ahead
C8_Witness ==
  /\ pc = "d_rate_wait"
  /\ Before.remaining = 0
  /\ Before.reset_time = obs.checkedAt + 100
  /\ obs.checkWait = 105

\* C9: with remaining = 0 and now >= resetAt + buffer, _check_rate_limit
\* sets remaining to the endpoint's capacity (search 180, tweet 200, follow
\* 50, dm 200) and resetAt to now + 900, reports not limited and leaves the
\* other endpoints alone.
C9_WindowRestored ==
  Checked /\ Before.remaining = 0
          /\ obs.checkedAt >= Before.reset_time + 5
    => /\ obs.checkWait = 0
       /\ pc = "d_call"
       /\ rate_limits[endpoint].remaining =
            (CASE endpoint = "search" -> 180
               [] endpoint = "tweet" -> 200
               [] endpoint = "follow" -> 50
               [] endpoint = "dm" -> 200)
       /\ rate_limits[endpoint].reset_time = obs.checkedAt + 900
       /\ \A e \in Endpoints \ {endpoint} : rate_limits[e] = obs.rlBefore[e]

\* the follow window restored to 50 before any invocation of the call
C9_Witness ==
  /\ pc = "d_call"
  /\ endpoint = "follow"
  /\ obs.invocations = 0
  /\ Before.remaining = 0
  /\ rate_limits["follow"].remaining = 50
  /\ rate_limits["follow"].reset_time = clock + 900

\* C10: with remaining > 0, _check_rate_limit reports not limited whatever
\* the clock and resetAt are, and changes neither remaining nor resetAt.
C10_NotLimitedWhileRemaining ==
  Checked /\ Before.remaining > 0
    => /\ obs.checkWait = 0
       /\ pc = "d_call"
       /\ rate_limits = obs.rlBefore

\* a check with quota left, once after and once before resetAt + buffer
C10_Witness ==
  /\ pc = "d_call"
  /\ Before.remaining > 0
  /\ obs.checkedAt >= Before.reset_time + 5
  /\ obs.failures >= 1

\* the window the headers of a response describe
HeaderWindow(hdr) == [remaining |-> hdr.remaining, reset_time |-> hdr.reset]

\* C11: after any sequence of _update_rate_limit calls on an endpoint whose
\* responses carry both headers (as integers), the endpoint's remaining and
\* reset_time are those of the last response, and an observe with both
\* headers leaves the windows of the other endpoints unchanged.
C11_LastHeadersWin ==
  /\ \A e \in Endpoints :
       obs.lastFull[e] # NoHeaders
         => rate_limits[e] = HeaderWindow(obs.lastFull[e])
  /\ (obs.op = "observe" /\ FullHeaders(obs.hdr)
      => \A e \in Endpoints \ {obs.e} : rate_limits[e] = obs.rlBefore[e])

\* a second observe with both headers that replaces the values of the first
C11_Witness ==
  /\ obs.op = "observe"
  /\ obs.fullCount[obs.e] >= 2
  /\ obs.rlBefore[obs.e] = [remaining |-> 7, reset_time |-> 1120]
  /\ rate_limits[obs.e] = [remaining |-> 0, reset_time |-> 9001]

\* C12: an _update_rate_limit call whose response lacks the remaining
\* header, the reset header or both sets the endpoint's remaining to
\* max(0, remaining - 1) and leaves its reset_time and the windows of the
\* other endpoints unchanged.
C12_DecrementWithoutHeaders ==
  obs.op = "observe" /\ (obs.hdr.remaining = NONE \/ obs.hdr.reset = NONE)
    => /\ rate_limits[obs.e].remaining =
            (IF obs.rlBefore[obs.e].remaining - 1 > 0
             THEN obs.rlBefore[obs.e].remaining - 1 ELSE 0)
       /\ rate_limits[obs.e].reset_time = obs.rlBefore[obs.e].reset_time
       /\ \A e \in Endpoints \ {obs.e} : rate_limits[e] = obs.rlBefore[e]

\* a response with the remaining header alone: the estimate goes from 1 to 0
C12_Witness ==
  /\ obs.op = "observe"
  /\ obs.hdr = [remaining |-> 7, reset |-> NONE]
  /\ obs.rlBefore[obs.e].remaining = 1
  /\ rate_limits[obs.e].remaining = 0

\* C13: whatever checks, observes (with non-negative header values or
\* without headers), quota-exceeded failures and window restores have
\* happened, every endpoint's remaining is >= 0.
C13_RemainingNonNegative ==
  \A e \in Endpoints : rate_limits[e].remaining >= 0

\* an observe without headers on an exhausted window: remaining stays 0
C13_Witness ==
  /\ obs.op = "observe"
  /\ obs.hdr = NoHeaders
  /\ obs.rlBefore[obs.e].remaining = 0
  /\ rate_limits[obs.e].remaining = 0

\* C14: when _check_rate_limit reports a wait W the dispatcher sleeps exactly
\* min(W, MAX_BACKOFF), leaves the attempt counter as it is, and invokes the
\* operation next, in the same turn of the loop, without consulting the
\* tracker again.
C14_RateLimitWaitThenInvoke ==
  [][ /\ (pc = "d_rate_wait"
          => /\ obs.checkWait > 0
             /\ wait_time = (IF obs.checkWait <= MAX_BACKOFF
                             THEN obs.checkWait ELSE MAX_BACKOFF)
             /\ clock' = clock + wait_time
             /\ retries' = retries
             /\ rate_limits' = rate_limits
             /\ pc' = "d_call")
      /\ (pc = "d_call"
          => /\ obs'.invocations = obs.invocations + 1
             /\ retries' = retries) ]_vars

\* a reported wait above MAX_BACKOFF has been slept as MAX_BACKOFF and the
\* operation is invoked next, after a quota-exceeded failure of this call
C14_Witness ==
  /\ pc = "d_call"
  /\ obs.checkWait > MAX_BACKOFF
  /\ clock = obs.checkedAt + MAX_BACKOFF
  /\ obs.invocations = 1
  /\ retries = 1

\* shouldFire of the specification: false at the cap, else true without a
\* last time, else true exactly when the interval has passed
ShouldFire(count, cap, last, now, interval) ==
  IF count >= cap THEN FALSE
  ELSE IF last = NONE THEN TRUE
  ELSE now - last >= interval

C16_CountersWithinCaps ==
  /\ state.tweets_posted_today <= 5
  /\ state.replies_sent_today <= 24
  /\ state.follows_today <= 20
  /\ state.dms_sent_today <= 5

\* every counter has been brought to its cap by an action of this run
C16_Witness ==
  /\ state.tweets_posted_today = 5
  /\ state.replies_sent_today = 24
  /\ state.follows_today = 20
  /\ state.dms_sent_today = 5
  /\ \A k \in ActionKinds : obs.done[k].count = 1

\* C20: a cycle goes on to follow (its search is dispatched) exactly when
\* follows are enabled and follows_today is below 20, and goes on to send a
\* direct message exactly when they are enabled, dms_sent_today is below 5
\* and a followed user has had none yet; the time since the previous follow
\* or direct message plays no part.
C20_NoIntervalForFollowAndDm ==
  [][ /\ (pc = "follow_gate"
          => ((pc' = "d_loop")
               <=> (enable_follows /\ state.follows_today < 20)))
      /\ (pc = "dm_gate"
          => ((pc' = "dm_delay")
               <=> (/\ enable_dms
                    /\ state.dms_sent_today < 5
                    /\ \E u \in Range(state.followed_users) :
                         u \notin Range(state.dm_sent_users)))) ]_vars

\* a second direct message sent less than three minutes after the first
C20_Witness ==
  /\ pc = "cycle_end"
  /\ obs.done["dm"].count = 2
  /\ obs.done["dm"].gap < 180

\* C17 (as claimed): the remote actions that succeed within one calendar day
\* are at most 5 tweets, 24 replies, 20 follows and 5 direct messages,
\* wherever the cycles and the waits of the dispatcher fall relative to
\* midnight.
C17_SuccessesPerDayWithinCaps ==
  /\ obs.done["tweet"].count <= 5
  /\ obs.done["reply"].count <= 24
  /\ obs.done["follow"].count <= 20
  /\ obs.done["dm"].count <= 5

C19_SuccessRecordedAndSaved ==
  [][ (pc \in ReturnPcs /\ response.status = "ok")
      => (/\ file' = << state' >>
         /\ writes' = writes + 1
         /\ (pc = "tweet_ret"
             => /\ state'.last_tweet_time = clock
                /\ state'.tweets_posted_today = state.tweets_posted_today + 1)
         /\ (pc = "reply_ret"
             => /\ state'.last_reply_time = clock
                /\ state'.replies_sent_today = state.replies_sent_today + 1)
         /\ (pc = "follow_ret"
             => /\ state'.follows_today = state.follows_today + 1
                /\ \E i \in DOMAIN state'.followed_users :
                     state'.followed_users[i] = target)
         /\ (pc = "dm_ret"
             => /\ state'.dms_sent_today = state.dms_sent_today + 1
                /\ \E i \in DOMAIN state'.dm_sent_users :
                     state'.dm_sent_users[i] = target)) ]_vars

\* a direct message to user 101 has just been recorded and saved
C19_Witness ==
  /\ pc = "cycle_end"
  /\ obs.action = "dm"
  /\ obs.last = "ok"
  /\ obs.done["dm"].at = clock
  /\ state.dms_sent_today = 1
  /\ state.dm_sent_users = << 101 >>
  /\ file = << state >>

\* the four daily counters of a state
Counters(st) ==
  << st.tweets_posted_today, st.replies_sent_today,
     st.follows_today, st.dms_sent_today >>

\* the state a new process has after __init__, as C21 describes it: the
\* document loaded (the defaults without a file), its counters zeroed and
\* its date set when the date is not today's
Constructed(f, now, st) ==
  IF f = <<>>
  THEN /\ Counters(st) = << 0, 0, 0, 0 >>
       /\ st.last_reset_date = now \div 86400
  ELSE IF f[1] = Unparseable
  THEN /\ Counters(st) = << 0, 0, 0, 0 >>
       /\ st.last_reset_date = now \div 86400
  ELSE IF f[1].last_reset_date # now \div 86400
  THEN /\ Counters(st) = << 0, 0, 0, 0 >>
       /\ st.last_reset_date = now \div 86400
       /\ st.last_tweet_time = f[1].last_tweet_time
       /\ st.used_tweets = f[1].used_tweets
  ELSE st = f[1]

\* C21: at construction and at the start of every cycle, before the gates:
\* when last_reset_date is not today all four counters become 0,
\* last_reset_date becomes today and the state is saved at once; when it is
\* today nothing is reset.  Nowhere else does a counter go down or the date
\* change, so the counters are zeroed once per day, by the first cycle of it.
C21_DailyReset ==
  [][ /\ (pc = "cycle_start" /\ state.last_reset_date # clock \div 86400
          => /\ Counters(state') = << 0, 0, 0, 0 >>
             /\ state'.last_reset_date = clock \div 86400
             /\ file' = << state' >>
             /\ writes' = writes + 1
             /\ pc' = "tweet_gate")
      /\ (pc = "cycle_start" /\ state.last_reset_date = clock \div 86400
          => state' = state /\ file' = file /\ pc' = "tweet_gate")
      /\ (pc = "cycle_end"
          => \/ state' = state /\ file' = file
             \/ /\ Constructed(file, clock', state')
                /\ (state' = load_state(file, clock') => file' = file)
                /\ (state' # load_state(file, clock') => file' = << state' >>))
      /\ (pc \notin {"cycle_start", "cycle_end"}
          => /\ state'.last_reset_date = state.last_reset_date
             /\ \A i \in 1..4 : Counters(state')[i] >= Counters(state)[i]) ]_vars

\* a later cycle of day 1: the first cycle of that day zeroed the counters,
\* this one has left the tweet counted since then alone
C21_Witness ==
  /\ pc = "tweet_gate"
  /\ cycles >= 3
  /\ state.last_reset_date = 1
  /\ clock \div 86400 = 1
  /\ state.tweets_posted_today >= 1
  /\ obs.done["tweet"].day = 1


\* ------------------------------------------------ the rotation alone
\* calls of _get_next_tweet / _get_next_reply in one run
MaxRotationCalls == 4

\* the pools _load_content can return: one to three lines, one of them
\* with a line that occurs twice
RotationPools == { << 1 >>, << 1, 2 >>, << 1, 2, 3 >>, << 1, 1, 2 >> }

\* the used lists bot_state.json can hold: items of the pool and an item (9)
\* that is no longer in it
RotationUsed ==
  { <<>> } \cup { << a >> : a \in {1, 2, 3, 9} }
           \cup { << a, b >> : a, b \in {1, 2, 3, 9} }

\* what is observed of a run of the selector: the pool, the list the run
\* started from, the list before the last call and the items returned
RotationObs(kind, pool, used0, before, returned) ==
  [ kind |-> kind, pool |-> pool, used0 |-> used0, before |-> before,
    returned |-> returned ]

\* _get_next_tweet()
GetNextTweet ==
  /\ pc = "rotation"
  /\ obs.kind = "tweet"
  /\ calls < MaxRotationCalls
  /\ \E c \in get_next(obs.pool, state.used_tweets) :
       /\ state' = [state EXCEPT !.used_tweets = c.used]
       /\ text' = c.item
       /\ obs' = RotationObs(obs.kind, obs.pool, obs.used0, state.used_tweets,
                             Append(obs.returned, c.item))
  /\ calls' = calls + 1
  /\ UNCHANGED << pc, clock, file, writes, rate_limits, enable_follows, enable_dms,
                  cycles, events, limits, endpoint, retries, backoff, wait_time,
                  response, ret, target >>

\* _get_next_reply()
GetNextReply ==
  /\ pc = "rotation"
  /\ obs.kind = "reply"
  /\ calls < MaxRotationCalls
  /\ \E c \in get_next(obs.pool, state.used_replies) :
       /\ state' = [state EXCEPT !.used_replies = c.used]
       /\ text' = c.item
       /\ obs' = RotationObs(obs.kind, obs.pool, obs.used0, state.used_replies,
                             Append(obs.returned, c.item))
  /\ calls' = calls + 1
  /\ UNCHANGED << pc, clock, file, writes, rate_limits, enable_follows, enable_dms,
                  cycles, events, limits, endpoint, retries, backoff, wait_time,
                  response, ret, target >>

RotationInit ==
  /\ pc = "rotation"
  /\ clock = 1000
  /\ \E kind \in {"tweet", "reply"}, pool \in RotationPools, used \in RotationUsed :
       /\ state = [DefaultState(clock) EXCEPT
                     !.used_tweets = IF kind = "tweet" THEN used ELSE <<>>,
                     !.used_replies = IF kind = "reply" THEN used ELSE <<>>]
       /\ obs = RotationObs(kind, pool, used, used, <<>>)
  /\ calls = 0
  /\ file = <<>>
  /\ writes = 0
  /\ rate_limits = InitialRateLimits(clock)
  /\ enable_follows = FALSE
  /\ enable_dms = FALSE
  /\ cycles = 0
  /\ events = 0
  /\ limits = [events |-> 0, calls |-> 0, cycles |-> 0]
  /\ endpoint = "tweet"
  /\ retries = 0
  /\ backoff = INITIAL_BACKOFF
  /\ wait_time = 0
  /\ response = NoResponse
  /\ ret = "rotation"
  /\ text = NONE
  /\ target = NONE

RotationNext == GetNextTweet \/ GetNextReply

RotationSpec == RotationInit /\ [][RotationNext]_vars

\* the used list of the run's kind
RotationUsedNow ==
  IF obs.kind = "tweet" THEN state.used_tweets ELSE state.used_replies

\* the items of the pool are distinct
Distinct(pool) == Cardinality(Range(pool)) = Len(pool)

\* C22: from an empty used list and a pool of N distinct items, after N
\* calls of the selector the used items are the whole pool, and after the
\* (N+1)th call the used list holds one item, the one that call returned.
C22_FullAfterNThenReset ==
  (obs.used0 = <<>> /\ Distinct(obs.pool))
    => /\ (Len(obs.returned) = Len(obs.pool)
             => Range(RotationUsedNow) = Range(obs.pool))
       /\ (Len(obs.returned) = Len(obs.pool) + 1
             => RotationUsedNow = << obs.returned[Len(obs.returned)] >>)

\* the fourth call on a pool of three items has just reset the rotation
C22_Witness ==
  /\ obs.used0 = <<>>
  /\ obs.pool = << 1, 2, 3 >>
  /\ Len(obs.returned) = 4
  /\ Len(RotationUsedNow) = 1

\* C23: for every non-empty pool and every used list the selector can return
\* (it does not block), and what it returns is an item of the pool that was
\* not in the used list before the call, unless the used list covered the
\* pool; so when an item is returned again, every item of the pool has been
\* used before that call.
C23_NoRepeatBeforeAllUsed ==
  /\ get_next(obs.pool, RotationUsedNow) # {}
  /\ Len(obs.returned) >= 1
       => LET item == obs.returned[Len(obs.returned)] IN
            /\ item \in Range(obs.pool)
            /\ item = text
            /\ (item \in Range(obs.before)
                  => Range(obs.pool) \subseteq Range(obs.before))
  /\ \A i, j \in DOMAIN obs.returned :
       (i < j /\ obs.returned[i] = obs.returned[j])
         => Range(obs.pool) \subseteq
              (Range(obs.used0) \cup { obs.returned[k] : k \in 1..(j - 1) })

\* pool [x, y], used = []: two calls have returned both items, once each
C23_Witness ==
  /\ obs.pool = << 1, 2 >>
  /\ obs.used0 = <<>>
  /\ Len(obs.returned) = 2
  /\ Range(obs.returned) = {1, 2}

\* one step of a used list: it is kept, or gains one entry at its end, or,
\* when every item of the pool is in it, is replaced by a list of one entry
RotationStep(pool, used, usedAfter) ==
  \/ usedAfter = used
  \/ Len(usedAfter) = Len(used) + 1 /\ SubSeq(usedAfter, 1, Len(used)) = used
  \/ Range(pool) \subseteq Range(used) /\ Len(usedAfter) = 1

\* C24: in every step used_tweets (used_replies) is emptied only when every
\* item of the tweets (replies) pool is in it; the daily reset, a failed
\* action, a save and the start of a cycle leave it as it is or longer.  A
\* new process starts from the lists of the state file.
C24_UsedClearedOnlyWhenExhausted ==
  [][ IF pc = "cycle_end" /\ state' # state
      THEN /\ state'.used_tweets = load_state(file, clock').used_tweets
           /\ state'.used_replies = load_state(file, clock').used_replies
      ELSE /\ RotationStep(tweets, state.used_tweets, state'.used_tweets)
           /\ RotationStep(replies, state.used_replies, state'.used_replies)
           /\ (pc \notin {"tweet_gate", "reply_found"}
                 => /\ state'.used_tweets = state.used_tweets
                    /\ state'.used_replies = state.used_replies) ]_vars

\* the tweet being posted was chosen after the used list, which held every
\* tweet of the pool, was emptied
C24_Witness ==
  /\ obs.action = "tweet"
  /\ pc = "d_loop"
  /\ Range(tweets) \subseteq Range(obs.state0.used_tweets)
  /\ state.used_tweets = << text >>

\* C25: a bot constructed without a state file, or with one that cannot be
\* parsed, has the default state (counters 0, no last times, empty lists,
\* last_reset_date today), and goes on into its cycle.
C25_DefaultStateWithoutUsableFile ==
  /\ [] ( (pc = "cycle_start" /\ cycles = 0
             /\ (file = <<>> \/ file = << Unparseable >>))
          => /\ Counters(state) = << 0, 0, 0, 0 >>
             /\ state.last_tweet_time = NONE
             /\ state.last_reply_time = NONE
             /\ state.last_reset_date = clock \div 86400
             /\ state.replied_to_tweets = <<>>
             /\ state.followed_users = <<>>
             /\ state.dm_sent_users = <<>>
             /\ state.used_tweets = <<>>
             /\ state.used_replies = <<>> )
  /\ [][ (pc = "cycle_start" /\ cycles = 0
            /\ (file = <<>> \/ file = << Unparseable >>))
         => (pc' = "tweet_gate" /\ cycles' = 1 /\ state' = state) ]_vars

\* the first cycle of a bot that found a file it could not parse
C25_Witness ==
  /\ pc = "tweet_gate"
  /\ cycles = 1
  /\ file = << Unparseable >>
  /\ state.tweets_posted_today = 0
  /\ state.used_tweets = <<>>


\* ------------------------------------------------ the state store alone
\* the states _save_state has written to the documents a run starts from
StoreStates(now) ==
  { [DefaultState(now) EXCEPT
       !.last_tweet_time = lt,
       !.last_reply_time = lr,
       !.tweets_posted_today = n,
       !.follows_today = Len(fu),
       !.last_reset_date = d,
       !.replied_to_tweets = rt,
       !.followed_users = fu,
       !.used_tweets = ut,
       !.used_replies = ur] :
      lt \in {NONE, 0, now - 100}, lr \in {NONE, now - 1800},
      n \in {0, 5}, d \in {Today(now), Today(now) - 1},
      rt \in { <<>>, << 3 >> }, fu \in { <<>>, << 101, 102 >> },
      ut \in { <<>>, << 2 >>, << 2, 1 >> }, ur \in { <<>>, << 11 >> } }

\* the files a run starts from: none, one that cannot be parsed, a document
StoreFiles(now) ==
  { <<>>, << Unparseable >> } \cup { << st >> : st \in StoreStates(now) }

\* what is observed of the run: the file it started from
StoreObs(f) == [ file0 |-> f ]

\* the document a file holds: nothing, text that is not JSON, or the
\* json.dump of the state it was saved with
Document(f) ==
  IF f = <<>> THEN << >>
  ELSE IF f[1] = Unparseable THEN << Unparseable >>
  ELSE << json_dump(f[1]) >>

\* self.state = self._load_state()
LoadState ==
  /\ pc = "store_load"
  /\ state' = load_state(file, clock)
  /\ pc' = "store_loaded"
  /\ UNCHANGED << clock, file, writes, rate_limits, enable_follows, enable_dms,
                  cycles, events, limits, dispVars, text, target, obs >>

\* self._save_state()
SaveState ==
  /\ pc = "store_loaded"
  /\ file' = << state >>
  /\ writes' = writes + 1
  /\ pc' = "store_saved"
  /\ UNCHANGED << clock, state, rate_limits, enable_follows, enable_dms,
                  cycles, events, limits, dispVars, text, target, obs >>

StoreInit ==
  /\ pc = "store_load"
  /\ clock = 100000
  /\ file \in StoreFiles(clock)
  /\ obs = StoreObs(file)
  /\ state = DefaultState(clock)
  /\ writes = 0
  /\ rate_limits = InitialRateLimits(clock)
  /\ enable_follows = FALSE
  /\ enable_dms = FALSE
  /\ cycles = 0
  /\ events = 0
  /\ limits = [events |-> 0, calls |-> 0, cycles |-> 0]
  /\ calls = 0
  /\ endpoint = "tweet"
  /\ retries = 0
  /\ backoff = INITIAL_BACKOFF
  /\ wait_time = 0
  /\ response = NoResponse
  /\ ret = "store"
  /\ text = NONE
  /\ target = NONE

StoreNext == LoadState \/ SaveState

StoreSpec == StoreInit /\ [][StoreNext]_vars

StageOf(p) ==
  CASE p = "cycle_start" -> 0
    [] p \in {"tweet_gate", "tweet_ret"} -> 1
    [] p \in {"reply_gate", "reply_found", "reply_delay", "reply_ret"} -> 2
    [] p \in {"follow_gate", "follow_found", "follow_delay", "follow_ret"} -> 3
    [] p \in {"dm_gate", "dm_delay", "dm_ret"} -> 4
    [] OTHER -> 5

Stage(p, r) == IF p \in DispatcherPcs THEN StageOf(r) ELSE StageOf(p)

\* the place where each part of the cycle starts
GateOf(n) ==
  CASE n = 1 -> "tweet_gate" [] n = 2 -> "reply_gate" [] n = 3 -> "follow_gate"
    [] n = 4 -> "dm_gate" [] OTHER -> "cycle_end"

\* C27: a cycle considers tweet, reply, follow and direct message in this
\* order; a part that ends, also by a failure of its remote call, hands over
\* to the gate of the next part, and a part that is due at its gate is
\* attempted whatever happened to the parts before it.
C27_FailureDoesNotAbortCycle ==
  [][ pc # "cycle_end" =>
      /\ \/ Stage(pc', ret') = Stage(pc, ret)
         \/ /\ Stage(pc', ret') = Stage(pc, ret) + 1
            /\ pc' = GateOf(Stage(pc, ret) + 1)
      /\ (pc \in ReturnPcs \cup SearchReturnPcs /\ failed(response))
           => pc' = GateOf(Stage(pc, ret) + 1)
      /\ (pc = "tweet_gate" /\ Len(tweets) > 0
            /\ ShouldFire(state.tweets_posted_today, 5, state.last_tweet_time,
                          clock, 4 * 3600))
           => (pc' = "d_loop" /\ endpoint' = "tweet" /\ ret' = "tweet_ret")
      /\ (pc = "reply_gate"
            /\ ShouldFire(state.replies_sent_today, 24, state.last_reply_time,
                          clock, 30 * 60))
           => (pc' = "d_loop" /\ endpoint' = "search" /\ ret' = "reply_found")
      /\ (pc = "follow_gate" /\ enable_follows /\ state.follows_today < 20)
           => (pc' = "d_loop" /\ endpoint' = "search" /\ ret' = "follow_found")
      /\ (pc = "dm_gate" /\ enable_dms /\ state.dms_sent_today < 5
            /\ potential_users(state) # {} /\ Len(dms) > 0)
           => pc' = "dm_delay" ]_vars

\* in the first cycle the tweet has failed (its text is used, no tweet is
\* recorded) and the reply of the same cycle has succeeded
C27_Witness ==
  /\ cycles = 1
  /\ pc = "follow_gate"
  /\ state.used_tweets # <<>>
  /\ state.last_tweet_time = NONE
  /\ state.tweets_posted_today = 0
  /\ obs.done["reply"].count = 1
  /\ state.replies_sent_today = 1

\* what the gate of an action reads: the time of its last success (none for
\* follows and direct messages) and its counter of the day
ActionRecord(st, k) ==
  CASE k = "tweet" -> << st.last_tweet_time, st.tweets_posted_today >>
    [] k = "reply" -> << st.last_reply_time, st.replies_sent_today >>
    [] k = "follow" -> << NONE, st.follows_today >>
    [] OTHER -> << NONE, st.dms_sent_today >>

\* the action whose remote call returns at p
KindOf(p) ==
  CASE p = "tweet_ret" -> "tweet" [] p = "reply_ret" -> "reply"
    [] p = "follow_ret" -> "follow" [] OTHER -> "dm"

\* C28: when the remote call of an action has failed after its retries, the
\* action ends with its last time and its counter as they were when it
\* started and the cycle goes on to the next gate, never back to this action;
\* nothing but a success of the action or a daily reset changes the two, so
\* the gate of the next cycle on that day answers as if no attempt was made.
C28_FailedActionEligibleNextCycle ==
  [][ /\ (pc \in ReturnPcs /\ failed(response))
           => /\ ActionRecord(state', KindOf(pc)) = ActionRecord(obs.state0, KindOf(pc))
              /\ pc' = GateOf(StageOf(pc) + 1)
      /\ (pc # "cycle_end") => (Stage(pc', ret') >= Stage(pc, ret))
      /\ \A k \in ActionKinds :
           (ActionRecord(state', k) # ActionRecord(state, k))
             => \/ pc \in {"cycle_start", "cycle_end"}
                \/ pc \in ReturnPcs /\ KindOf(pc) = k /\ ~failed(response) ]_vars

\* the tweet of the first cycle failed; the second cycle, on the same day,
\* has found it due again and dispatches it
C28_Witness ==
  /\ cycles = 2
  /\ obs.action = "tweet"
  /\ pc = "d_loop"
  /\ Len(obs.state0.used_tweets) = 1
  /\ obs.state0.last_tweet_time = NONE
  /\ obs.state0.tweets_posted_today = 0
  /\ obs.state0.last_reset_date = clock \div 86400


\* ------------------------------------------------ the process entry points
\* dispatcher calls, cycles of the continuous process and budgeted responses
\* in one run from an entry point
MaxEntryCalls == 3
MaxEntryCycles == 2
MaxEntryEvents == 2

\* how a process is started: by main.py or by github_action_runner.py, with
\* or without the five credentials in the environment, with or without
\* tweets.txt and replies.txt.  (A runner without the content files has empty
\* pools; the pools of the model are fixed, so the runner is started with
\* the files.)
EntryStarts ==
  { s \in [entry : {"main", "runner"}, credentials : BOOLEAN, content : BOOLEAN] :
      s.entry = "runner" => s.content }

\* main.py, lines 606-633: exit(1) when a credential or a content file is
\* missing, else the bot is constructed and run_forever entered
MainStartup ==
  /\ pc = "startup"
  /\ limits.entry = "main"
  /\ IF ~limits.credentials \/ ~limits.content
     THEN pc' = "exited" /\ UNCHANGED << state, rate_limits >>
     ELSE /\ state' = reset_daily_counters(load_state(file, clock), clock)
          /\ rate_limits' = InitialRateLimits(clock)
          /\ pc' = "cycle_start"
  /\ UNCHANGED << clock, file, writes, enable_follows, enable_dms, cycles,
                  events, limits, dispVars, text, target, obs >>

\* github_action_runner.py, lines 18-26: the bot is constructed and run_once
\* called; nothing is checked before
RunnerStartup ==
  /\ pc = "startup"
  /\ limits.entry = "runner"
  /\ state' = reset_daily_counters(load_state(file, clock), clock)
  /\ rate_limits' = InitialRateLimits(clock)
  /\ pc' = "cycle_start"
  /\ UNCHANGED << clock, file, writes, enable_follows, enable_dms, cycles,
                  events, limits, dispVars, text, target, obs >>

\* the remote service answers a call successfully only when the client has
\* the credentials
InvokeAuthorized == limits.credentials /\ InvokeSuccess

\* a process about to start; the one-shot runner runs one cycle
EntryInit ==
  /\ pc = "startup"
  /\ clock \in StartTimes
  /\ \E s \in EntryStarts :
       limits = [events |-> MaxEntryEvents, calls |-> MaxEntryCalls,
                 cycles |-> IF s.entry = "runner" THEN 1 ELSE MaxEntryCycles,
                 entry |-> s.entry, credentials |-> s.credentials,
                 content |-> s.content]
  /\ enable_follows = FALSE
  /\ enable_dms = FALSE
  /\ file = <<>>
  /\ state = DefaultState(clock)
  /\ writes = 0
  /\ rate_limits = InitialRateLimits(clock)
  /\ cycles = 0
  /\ events = 0
  /\ calls = 0
  /\ endpoint = "tweet"
  /\ retries = 0
  /\ backoff = INITIAL_BACKOFF
  /\ wait_time = 0
  /\ response = NoResponse
  /\ ret = "cycle_start"
  /\ text = NONE
  /\ target = NONE
  /\ obs = NewObs(rate_limits, 0, state, state)

EntryNext ==
  \/ MainStartup \/ RunnerStartup
  \/ RunOnce
  \/ PostTweet \/ SkipTweet \/ PostTweetReturn
  \/ FindAndReply \/ SkipReply \/ ReplyFound \/ ReplyDelay \/ ReplyReturn
  \/ SkipFollow \/ SkipDms
  \/ CycleSleep
  \/ DispatcherLoop \/ DispatcherGiveUp
  \/ InvokeAuthorized \/ InvokeError \/ BackoffSleep

EntrySpec == EntryInit /\ [][EntryNext]_vars

\* C29: in each entry point, main.py and github_action_runner.py, a process
\* started without a required credential or content file stops at startup:
\* it runs no cycle and invokes no remote call.
C29_StopsAtStartupWithoutConfiguration ==
  (~limits.credentials \/ ~limits.content)
    => /\ pc \in {"startup", "exited"}
       /\ cycles = 0
       /\ calls = 0
       /\ obs.invocations = 0


\* ------------------------------------------------ one-shot runs side by side
\* Each run of github_action_runner.py is a process of its own with the bot
\* in its memory; the processes share the clock and bot_state.json.  In this
\* specification pc, state, text and response hold one value per process.
\* The dispatcher call of a process is one step: the remote call succeeds, or
\* the dispatcher gives up after its backoff sleeps; a search finds nothing.
Procs == {1, 2}

\* the time a dispatcher call takes until it gives up: six failed
\* invocations of a second each and the sleeps after them
GiveUpDuration == 6 + 60 + 120 + 240 + 480 + 960 + 1920

\* the times that can pass before a run is triggered, and how often time
\* passes this way in one execution
RunnerTicks == {120, 4 * 3600}
MaxRunnerTicks == 2

\* what is observed of the runs: the times at which a tweet was posted
RunnersObs(posted) == [ posted |-> posted ]

runnersIdle == << rate_limits, enable_follows, enable_dms, limits,
                  endpoint, retries, backoff, wait_time, ret, target >>

\* github_action_runner.py, line 22, and __init__, lines 59-60: nothing is
\* checked or locked before the state is loaded
RunnerStart(p) ==
  /\ pc[p] = "idle"
  /\ LET st == reset_daily_counters(load_state(file, clock), clock) IN
       /\ state' = [state EXCEPT ![p] = st]
       /\ IF st # load_state(file, clock)
          THEN file' = << st >> /\ writes' = writes + 1
          ELSE UNCHANGED << file, writes >>
  /\ pc' = [pc EXCEPT ![p] = "cycle_start"]
  /\ UNCHANGED << clock, cycles, calls, text, response, obs, events, runnersIdle >>

\* run_once, line 567
RunnerRunOnce(p) ==
  /\ pc[p] = "cycle_start"
  /\ LET st == reset_daily_counters(state[p], clock) IN
       /\ state' = [state EXCEPT ![p] = st]
       /\ IF st # state[p]
          THEN file' = << st >> /\ writes' = writes + 1
          ELSE UNCHANGED << file, writes >>
  /\ cycles' = cycles + 1
  /\ pc' = [pc EXCEPT ![p] = "tweet_gate"]
  /\ UNCHANGED << clock, calls, text, response, obs, events, runnersIdle >>

\* lines 570-571 and 345-357
RunnerPostTweet(p) ==
  /\ pc[p] = "tweet_gate"
  /\ IF should_post_tweet(state[p], clock)
     THEN \E c \in get_next(tweets, state[p].used_tweets) :
            /\ state' = [state EXCEPT ![p].used_tweets = c.used]
            /\ text' = [text EXCEPT ![p] = c.item]
            /\ calls' = calls + 1
            /\ pc' = [pc EXCEPT ![p] = "tweet_call"]
     ELSE /\ pc' = [pc EXCEPT ![p] = "reply_gate"]
          /\ UNCHANGED << state, text, calls >>
  /\ UNCHANGED << clock, file, writes, cycles, response, obs, events, runnersIdle >>

\* _api_request_with_backoff("tweet", ...), lines 251-311, as one step
RunnerTweetCall(p) ==
  /\ pc[p] = "tweet_call"
  /\ \/ /\ \E dur \in CallDurations : clock' = clock + dur
        /\ response' = [response EXCEPT ![p] = [status |-> "ok", data |-> <<>>]]
     \/ /\ clock' = clock + GiveUpDuration
        /\ response' = [response EXCEPT ![p] = NoResponse]
  /\ pc' = [pc EXCEPT ![p] = "tweet_ret"]
  /\ UNCHANGED << state, file, writes, cycles, calls, text, obs, events, runnersIdle >>

\* lines 359-375
RunnerTweetReturn(p) ==
  /\ pc[p] = "tweet_ret"
  /\ LET r == post_tweet_result(state[p], response[p], clock) IN
       /\ state' = [state EXCEPT ![p] = r.state]
       /\ IF r.save
          THEN /\ file' = << r.state >>
               /\ writes' = writes + 1
               /\ obs' = RunnersObs(Append(obs.posted, clock))
          ELSE UNCHANGED << file, writes, obs >>
  /\ text' = [text EXCEPT ![p] = NONE]
  /\ pc' = [pc EXCEPT ![p] = "reply_gate"]
  /\ UNCHANGED << clock, cycles, calls, response, events, runnersIdle >>

\* lines 574-575 and 379-396: the search, which finds nothing or fails
RunnerFindAndReply(p) ==
  /\ pc[p] = "reply_gate"
  /\ IF should_find_and_reply(state[p], clock)
     THEN /\ calls' = calls + 1
          /\ pc' = [pc EXCEPT ![p] = "search_call"]
     ELSE /\ pc' = [pc EXCEPT ![p] = "done"]
          /\ UNCHANGED calls
  /\ UNCHANGED << clock, state, file, writes, cycles, text, response, obs,
                  events, runnersIdle >>

RunnerSearchCall(p) ==
  /\ pc[p] = "search_call"
  /\ \/ \E dur \in CallDurations : clock' = clock + dur
     \/ clock' = clock + GiveUpDuration
  /\ pc' = [pc EXCEPT ![p] = "done"]
  /\ UNCHANGED << state, file, writes, cycles, calls, text, response, obs,
                  events, runnersIdle >>

\* time passes while a run is still to be triggered
RunnerTick ==
  /\ \E p \in Procs : pc[p] = "idle"
  /\ events < MaxRunnerTicks
  /\ events' = events + 1
  /\ \E d \in RunnerTicks : clock' = clock + d
  /\ UNCHANGED << pc, state, file, writes, cycles, calls, text, response, obs,
                  runnersIdle >>

RunnersInit ==
  /\ pc = [p \in Procs |-> "idle"]
  /\ clock \in {0, 86000}
  /\ file \in { <<>>, << [DefaultState(clock) EXCEPT !.used_tweets = << 1 >>] >> }
  /\ state = [p \in Procs |-> DefaultState(clock)]
  /\ text = [p \in Procs |-> NONE]
  /\ response = [p \in Procs |-> NoResponse]
  /\ obs = RunnersObs(<<>>)
  /\ writes = 0
  /\ cycles = 0
  /\ calls = 0
  /\ rate_limits = InitialRateLimits(clock)
  /\ enable_follows = FALSE
  /\ enable_dms = FALSE
  /\ events = 0
  /\ limits = [events |-> 0, calls |-> 0, cycles |-> 0]
  /\ endpoint = "tweet"
  /\ retries = 0
  /\ backoff = INITIAL_BACKOFF
  /\ wait_time = 0
  /\ ret = "done"
  /\ target = NONE

RunnersNext ==
  \/ \E p \in Procs : RunnerStart(p)
  \/ \E p \in Procs : RunnerRunOnce(p)
  \/ \E p \in Procs : RunnerPostTweet(p)
  \/ \E p \in Procs : RunnerTweetCall(p)
  \/ \E p \in Procs : RunnerTweetReturn(p)
  \/ \E p \in Procs : RunnerFindAndReply(p)
  \/ \E p \in Procs : RunnerSearchCall(p)
  \/ RunnerTick

RunnersSpec == RunnersInit /\ [][RunnersNext]_vars

\* C30: at any time at most one dispatcher call is in progress and at most
\* one cycle has the state in its hands: no two cycles, of separately
\* triggered one-shot runs either, overlap between reading bot_state.json
\* and their last write of it.
C30_OneCycleAtATime ==
  /\ Cardinality({ p \in Procs : pc[p] \in {"tweet_call", "search_call"} }) <= 1
  /\ Cardinality({ p \in Procs : pc[p] \notin {"idle", "done"} }) <= 1


\* ------------------------------------------------ a crash around a save
\* what is observed of the run: the file before the save and the state the
\* save was called with
CrashObs(f, st) == [ file0 |-> f, saved |-> st ]

\* an action has succeeded and recorded it in the state (lines 366-367)
RecordSuccess ==
  /\ pc = "store_loaded"
  /\ state' = [state EXCEPT !.last_tweet_time = clock,
                            !.tweets_posted_today = @ + 1]
  /\ obs' = CrashObs(file, state')
  /\ pc' = "save_open"
  /\ UNCHANGED << clock, file, writes, rate_limits, enable_follows, enable_dms,
                  cycles, events, limits, dispVars, text, target >>

\* _save_state, line 129: open(STATE_FILE, 'w') creates or truncates the
\* file; until json.dump has written the whole document the file holds a
\* prefix of it, which json.load cannot parse
SaveOpen ==
  /\ pc = "save_open"
  /\ file' = << Unparseable >>
  /\ pc' = "save_dump"
  /\ UNCHANGED << clock, state, writes, rate_limits, enable_follows, enable_dms,
                  cycles, events, limits, dispVars, text, target, obs >>

\* _save_state, line 130 and the end of the with block: the document is
\* written and the file closed
SaveDump ==
  /\ pc = "save_dump"
  /\ file' = << state >>
  /\ writes' = writes + 1
  /\ pc' = "store_saved"
  /\ UNCHANGED << clock, state, rate_limits, enable_follows, enable_dms,
                  cycles, events, limits, dispVars, text, target, obs >>

\* the process is killed
Crash ==
  /\ pc \in {"store_loaded", "save_open", "save_dump", "store_saved"}
  /\ pc' = "crashed"
  /\ UNCHANGED << clock, state, file, writes, rate_limits, enable_follows,
                  enable_dms, cycles, events, limits, dispVars, text, target, obs >>

\* the next process loads the file (line 59)
LoadAfterCrash ==
  /\ pc = "crashed"
  /\ \E g \in CycleGaps : clock' = clock + g
  /\ state' = load_state(file, clock')
  /\ pc' = "reloaded"
  /\ UNCHANGED << file, writes, rate_limits, enable_follows, enable_dms,
                  cycles, events, limits, dispVars, text, target, obs >>

CrashInit ==
  /\ pc = "store_load"
  /\ clock = 100000
  /\ file \in { <<>> } \cup { << st >> : st \in StoreStates(clock) }
  /\ obs = CrashObs(file, DefaultState(clock))
  /\ state = DefaultState(clock)
  /\ writes = 0
  /\ rate_limits = InitialRateLimits(clock)
  /\ enable_follows = FALSE
  /\ enable_dms = FALSE
  /\ cycles = 0
  /\ events = 0
  /\ limits = [events |-> 0, calls |-> 0, cycles |-> 0]
  /\ calls = 0
  /\ endpoint = "tweet"
  /\ retries = 0
  /\ backoff = INITIAL_BACKOFF
  /\ wait_time = 0
  /\ response = NoResponse
  /\ ret = "store"
  /\ text = NONE
  /\ target = NONE

CrashNext ==
  LoadState \/ RecordSuccess \/ SaveOpen \/ SaveDump \/ Crash \/ LoadAfterCrash

CrashSpec == CrashInit /\ [][CrashNext]_vars

\* C31: wherever the process is killed, also inside _save_state, the file
\* the next process loads is the complete document saved before or the
\* complete new one, never a truncated or partly written one.
C31_SaveIsAtomic ==
  pc \in {"crashed", "reloaded"}
    => \/ file = obs.file0
       \/ file = << obs.saved >>


\* ------------------------------------------------ an interrupted bot
\* the places where the bot is inside time.sleep: the rate-limit wait and the
\* backoff of the dispatcher (lines 262, 296, 307), the delays before a
\* reply, a follow and a direct message (417, 484, 541) and the sleep between
\* two cycles (597)
SleepPcs == {"d_rate_wait", "d_backoff", "reply_delay", "follow_delay",
             "dm_delay", "cycle_end"}

\* (mutant) the interrupted bot saves its state before it exits
Interrupt_saves ==
  /\ pc \in SleepPcs
  /\ pc' = "stopped"
  /\ file' = << state >>
  /\ writes' = writes + 1
  /\ UNCHANGED << clock, state, rate_limits, enable_follows, enable_dms,
                  cycles, events, limits, dispVars, text, target, obs >>

\* KeyboardInterrupt raised in time.sleep: no except Exception clause catches
\* it, run_forever logs it (lines 599-600) and the process ends
Interrupt ==
  /\ pc \in SleepPcs
  /\ pc' = "stopped"
  /\ UNCHANGED << clock, state, file, writes, rate_limits, enable_follows,
                  enable_dms, cycles, events, limits, dispVars, text, target, obs >>

\* the bot after __init__, with at most one budgeted response in the run
InterruptInit ==
  /\ pc = "cycle_start"
  /\ clock \in StartTimes
  /\ \E s \in Starts(clock) :
       /\ enable_follows = s.follows
       /\ enable_dms = s.dms
       /\ file = s.file
  /\ state = reset_daily_counters(load_state(file, clock), clock)
  /\ writes = 0
  /\ rate_limits = InitialRateLimits(clock)
  /\ cycles = 0
  /\ events = 0
  /\ limits = [events |-> CapEvents, calls |-> MaxCalls, cycles |-> MaxCycles]
  /\ calls = 0
  /\ endpoint = "tweet"
  /\ retries = 0
  /\ backoff = INITIAL_BACKOFF
  /\ wait_time = 0
  /\ response = NoResponse
  /\ ret = "cycle_start"
  /\ text = NONE
  /\ target = NONE
  /\ obs = NewObs(rate_limits, 0, state, state)

InterruptNext == Next \/ Interrupt

InterruptSpec == InterruptInit /\ [][InterruptNext]_vars

\* C32: an interruption during a sleep of the dispatcher, a delay before an
\* action or the sleep between two cycles stops the bot, and bot_state.json
\* stays as it was when the sleep began: the sleep writes nothing, the
\* interruption writes nothing, and a stopped bot does nothing more.
C32_InterruptedSleepWritesNothing ==
  [][ /\ (pc \in SleepPcs) => (file' = file /\ writes' = writes)
      /\ (pc = "stopped") => (pc' = "stopped" /\ file' = file) ]_vars

\* the bot was interrupted in a backoff sleep while its memory held a
\* selection the file does not
C32_Witness ==
  /\ pc = "stopped"
  /\ obs.sleepKind = "exp"
  /\ state.used_tweets # <<>>
  /\ file = <<>>


\* ------------------------------------------------ a kill before the save
\* dispatcher calls and cycles in one run with a kill
MaxKillCalls == 6
MaxKillCycles == 2

\* The process is killed when the remote call of an action has succeeded and
\* the action has not yet saved (between lines 353 and 368, 421 and 435, 487
\* and 500, 547 and 556), and a new process is started later.  The remote
\* side has performed the interaction; it is remembered in limits.lost,
\* which no step of the bot reads or changes.  One kill per run, of a reply,
\* a follow or a direct message.
KillBeforeSave ==
  /\ pc \in ReturnPcs
  /\ ~failed(response)
  /\ pc # "tweet_ret"
  /\ limits.lost = {}
  /\ limits' = [limits EXCEPT !.lost = { << KindOf(pc), target >> }]
  /\ \E g \in CycleGaps : clock' = clock + g
  /\ state' = reset_daily_counters(load_state(file, clock'), clock')
  /\ IF state' # load_state(file, clock')
     THEN file' = << state' >> /\ writes' = writes + 1
     ELSE UNCHANGED << file, writes >>
  /\ rate_limits' = InitialRateLimits(clock')
  /\ text' = NONE
  /\ target' = NONE
  /\ pc' = "cycle_start"
  /\ UNCHANGED << enable_follows, enable_dms, cycles, events, dispVars, obs >>

KillInit ==
  /\ pc = "cycle_start"
  /\ clock \in StartTimes
  /\ \E s \in Starts(clock) :
       /\ enable_follows = s.follows
       /\ enable_dms = s.dms
       /\ file = s.file
  /\ state = reset_daily_counters(load_state(file, clock), clock)
  /\ writes = 0
  /\ rate_limits = InitialRateLimits(clock)
  /\ cycles = 0
  /\ events = 0
  /\ limits = [events |-> 0, calls |-> MaxKillCalls, cycles |-> MaxKillCycles,
               lost |-> {}]
  /\ calls = 0
  /\ endpoint = "tweet"
  /\ retries = 0
  /\ backoff = INITIAL_BACKOFF
  /\ wait_time = 0
  /\ response = NoResponse
  /\ ret = "cycle_start"
  /\ text = NONE
  /\ target = NONE
  /\ obs = NewObs(rate_limits, 0, state, state)

KillNext ==
  \/ RunOnce
  \/ PostTweet \/ SkipTweet \/ PostTweetReturn
  \/ FindAndReply \/ SkipReply \/ ReplyFound \/ ReplyDelay \/ ReplyReturn
  \/ FollowUsers \/ SkipFollow \/ FollowFound \/ FollowDelay \/ FollowReturn
  \/ SendDms \/ SkipDms \/ DmDelay \/ DmReturn
  \/ CycleSleep
  \/ DispatcherLoop \/ InvokeSuccess
  \/ KillBeforeSave

KillSpec == KillInit /\ [][KillNext]_vars

\* the list in which an action records whom it acted on
InteractedIds(st, k) ==
  CASE k = "reply" -> st.replied_to_tweets
    [] k = "follow" -> st.followed_users
    [] OTHER -> st.dm_sent_users

NoDuplicates(s) == \A i, j \in DOMAIN s : s[i] = s[j] => i = j

\* C33: over cycles and restarts, a kill between a successful remote call
\* and its save included, no tweet is replied to twice, no user followed
\* twice and no user sent two direct messages: the three lists hold no
\* duplicate, every recipient of a direct message is a followed user, and
\* an interaction the remote side performed is not performed again.
C33_NoInteractionTwice ==
  /\ NoDuplicates(state.replied_to_tweets)
  /\ NoDuplicates(state.followed_users)
  /\ NoDuplicates(state.dm_sent_users)
  /\ Range(state.dm_sent_users) \subseteq Range(state.followed_users)
  /\ \A x \in limits.lost : x[2] \notin Range(InteractedIds(state, x[1]))


\* C34: whenever the dispatcher is about to invoke the operation for an
\* endpoint, the tracker does not hold that endpoint limited at that moment:
\* remaining > 0, or the reset time plus the buffer has been reached.
C34_InvokedOnlyWhenNotLimited ==
  pc = "d_call"
    => \/ rate_limits[endpoint].remaining > 0
       \/ clock >= rate_limits[endpoint].reset_time + 5


\* ------------------------------------------------ a dispatcher call that goes on
\* one call of _api_request_with_backoff in which every sleep and every
\* invocation of the operation returns: a step that can be taken is taken
DispatcherFairSpec ==
  DispatcherInit /\ [][DispatcherNext]_vars /\ WF_vars(DispatcherNext)

\* how far a dispatcher call is from its end: the attempts left, and within
\* one turn of the loop the check, the rate-limit wait, the invocation and
\* the backoff sleep
Variant ==
  4 * (MAX_RETRIES + 1 - retries)
    + (CASE pc = "d_loop" -> 3 [] pc = "d_rate_wait" -> 2 [] pc = "d_call" -> 1
         [] OTHER -> 0)

\* C35: a dispatcher call whose sleeps and invocations return comes to its
\* end: each turn of the loop returns or increments the attempt counter, so
\* there are at most MAX_RETRIES + 1 invocations and as many backoff sleeps,
\* whatever the operation answers.
C35_DispatcherTerminates ==
  /\ [](obs.invocations <= MAX_RETRIES + 1 /\ retries <= MAX_RETRIES + 1)
  /\ [][ (pc \in DispatcherPcs)
           => (pc' \notin DispatcherPcs \/ Variant' < Variant) ]_vars
  /\ <>(pc \notin DispatcherPcs)

\* the call has ended after the operation failed in every turn of the loop
C35_Witness ==
  /\ pc \notin DispatcherPcs
  /\ obs.invocations = MAX_RETRIES + 1
  /\ obs.failures = MAX_RETRIES + 1
  /\ response = NoResponse


\* ------------------------------------------------ what the daily reset keeps
\* the fields of BotState other than the four counters and last_reset_date
Carried(st) ==
  << st.last_tweet_time, st.last_reply_time, st.used_tweets, st.used_replies,
     st.replied_to_tweets, st.followed_users, st.dm_sent_users >>

\* C36: the daily reset, at the start of a cycle or in the constructor of a
\* new process, changes only the four counters and last_reset_date: the times
\* of the last tweet and reply, the rotation lists and the lists of tweets
\* replied to, users followed and users messaged are as they were (in a new
\* process: as the file has them).
C36_ResetKeepsTheRest ==
  [][ /\ (pc = "cycle_start")
           => (/\ Carried(state') = Carried(state)
               /\ DOMAIN state' = DOMAIN state)
      /\ (pc = "cycle_end")
           => (\/ state' = state
               \/ Carried(state') = Carried(load_state(file, clock'))) ]_vars

\* the second cycle runs on day 1 after a first cycle on day 0: the reset
\* has zeroed the counters, the tweet of day 0 is still the last tweet and
\* the lists are as long as they were
C36_Witness ==
  /\ pc = "tweet_gate"
  /\ cycles = 2
  /\ state.last_reset_date = 1
  /\ Counters(state) = << 0, 0, 0, 0 >>
  /\ obs.done["tweet"].day = 0
  /\ state.last_tweet_time # NONE
  /\ state.last_tweet_time < SECONDS_PER_DAY
  /\ Len(state.used_tweets) = 2
  /\ state.followed_users # << >>
  /\ state.replied_to_tweets # << >>


\* ------------------------------------------------ one action of a kind per cycle
\* the place where the dispatcher returns to in each part of the cycle
RetOf(n) ==
  CASE n = 1 -> "tweet_ret" [] n = 2 -> "reply_ret" [] n = 3 -> "follow_ret"
    [] OTHER -> "dm_ret"

\* C37: in one cycle each of the four counters increases at most once and
\* then by 1: a counter increases only in the step that ends its part of the
\* cycle, after the remote call for one candidate has returned; that step
\* leaves the part whether the call succeeded or failed, and no part of a
\* cycle is entered again before the next cycle starts.
C37_OneOfEachPerCycle ==
  [][ /\ \A i \in 1..4 :
           (Counters(state')[i] > Counters(state)[i])
             => (/\ Counters(state')[i] = Counters(state)[i] + 1
                 /\ pc = RetOf(i)
                 /\ ~failed(response)
                 /\ pc' = GateOf(i + 1))
      /\ (pc \in ReturnPcs) => (pc' = GateOf(StageOf(pc) + 1))
      /\ (pc # "cycle_end") => (Stage(pc', ret') >= Stage(pc, ret))
      /\ (pc = "cycle_end") => (pc' = "cycle_start" /\ cycles' = cycles)
      /\ (cycles' # cycles) => (pc = "cycle_start" /\ cycles' = cycles + 1) ]_vars

\* the first cycle has ended with a tweet, a reply, a follow and a direct
\* message done, one of each
C37_Witness ==
  /\ pc = "cycle_end"
  /\ cycles = 1
  /\ Counters(state) = << 5, 24, 20, 5 >>
  /\ \A k \in ActionKinds : obs.done[k].count = 1
  /\ Len(state.replied_to_tweets) = 1


\* ------------------------------------------------ a document that lacks fields
\* the keys of the default state (lines 111-124)
SchemaFields == DOMAIN DefaultState(0)
CounterFields ==
  {"tweets_posted_today", "replies_sent_today", "follows_today", "dms_sent_today"}

\* how many fields a document lacks at most
MaxMissing == 2

\* json.load of one value, and of an object with whatever keys it has: the
\* dict _load_state returns at line 106 has the keys of the document, the
\* default state of lines 111-124 is not consulted
load_value(j) ==
  CASE j.t = "null" -> NONE
    [] j.t = "array" -> load_array(j)
    [] OTHER -> j.v

load_document(doc) == [f \in DOMAIN doc |-> load_value(doc[f])]

\* json.dump of one entry of self.state, and of self.state with whatever
\* keys it has
dump_value(f, v) ==
  CASE f \in {"last_tweet_time", "last_reply_time"} -> dump_optional(v)
    [] f \in {"used_tweets", "used_replies"} -> dump_strings(v)
    [] f \in {"replied_to_tweets", "followed_users", "dm_sent_users"}
         -> dump_numbers(v)
    [] f = "last_reset_date" -> JString(v)
    [] OTHER -> JNumber(v)

dump_document(st) == [f \in DOMAIN st |-> dump_value(f, st[f])]

\* the states whose documents are cut down
SchemaStates(now) ==
  { [DefaultState(now) EXCEPT
       !.last_tweet_time = lt,
       !.tweets_posted_today = n,
       !.last_reset_date = d,
       !.used_tweets = ut] :
      lt \in {NONE, now - 5 * 3600}, n \in {1, 5},
      d \in {Today(now), Today(now) - 1}, ut \in { <<>>, << 2 >> } }

\* documents that parse but lack fields: what _save_state wrote, without up
\* to MaxMissing of the keys
SchemaDocuments(now) ==
  { [f \in SchemaFields \ M |-> json_dump(st)[f]] :
      st \in SchemaStates(now),
      M \in { X \in SUBSET SchemaFields : X # {} /\ Cardinality(X) <= MaxMissing } }

\* self.state = self._load_state() (line 59); here the file variable holds
\* the document itself
SchemaLoad ==
  /\ pc = "store_load"
  /\ state' = load_document(file[1])
  /\ pc' = "schema_loaded"
  /\ UNCHANGED << clock, file, writes, rate_limits, enable_follows, enable_dms,
                  cycles, events, limits, dispVars, text, target, obs >>

\* self._check_reset_daily_counters() (line 60): line 137 reads
\* self.state["last_reset_date"], a KeyError when the key is missing, which
\* nothing in __init__ catches; lines 139-143 assign the date and the four
\* counters (an assignment adds a missing key), line 144 saves
SchemaReset ==
  /\ pc = "schema_loaded"
  /\ IF "last_reset_date" \notin DOMAIN state
     THEN /\ pc' = "raised"
          /\ UNCHANGED << state, file, writes >>
     ELSE /\ pc' = "constructed"
          /\ IF state["last_reset_date"] # Today(clock)
             THEN /\ state' =
                       [f \in DOMAIN state \cup CounterFields |->
                          IF f \in CounterFields THEN 0
                          ELSE IF f = "last_reset_date" THEN Today(clock)
                          ELSE state[f]]
                  /\ file' = << dump_document(state') >>
                  /\ writes' = writes + 1
             ELSE UNCHANGED << state, file, writes >>
  /\ UNCHANGED << clock, rate_limits, enable_follows, enable_dms, cycles,
                  events, limits, dispVars, text, target, obs >>

\* run_once, line 570: should_post_tweet reads tweets_posted_today (316) and,
\* below the cap, last_tweet_time (320); a KeyError leaves run_once
SchemaTweetGate ==
  /\ pc = "constructed"
  /\ pc' = IF "tweets_posted_today" \notin DOMAIN state THEN "raised"
           ELSE IF state["tweets_posted_today"] >= TWEET_LIMIT_PER_DAY
           THEN "tweet_skipped"
           ELSE IF "last_tweet_time" \notin DOMAIN state THEN "raised"
           ELSE IF state["last_tweet_time"] = NONE THEN "tweet_due"
           ELSE IF clock - state["last_tweet_time"] >= TWEET_INTERVAL_HOURS * 3600
           THEN "tweet_due"
           ELSE "tweet_skipped"
  /\ UNCHANGED << clock, state, file, writes, rate_limits, enable_follows,
                  enable_dms, cycles, events, limits, dispVars, text, target,
                  obs >>

\* post_tweet, line 348: _get_next_tweet reads used_tweets (165); the
\* KeyError is caught at 373 and post_tweet returns False without a call
SchemaGetNextTweet ==
  /\ pc = "tweet_due"
  /\ IF "used_tweets" \notin DOMAIN state
     THEN /\ pc' = "tweet_failed"
          /\ UNCHANGED << state, text >>
     ELSE \E c \in get_next(tweets, state["used_tweets"]) :
            /\ state' = [state EXCEPT !["used_tweets"] = c.used]
            /\ text' = c.item
            /\ pc' = "tweet_chosen"
  /\ UNCHANGED << clock, file, writes, rate_limits, enable_follows, enable_dms,
                  cycles, events, limits, dispVars, target, obs >>

SchemaInit ==
  /\ pc = "store_load"
  /\ clock = 100000
  /\ file \in { << d >> : d \in SchemaDocuments(clock) }
  /\ obs = StoreObs(file)
  /\ state = DefaultState(clock)
  /\ writes = 0
  /\ rate_limits = InitialRateLimits(clock)
  /\ enable_follows = FALSE
  /\ enable_dms = FALSE
  /\ cycles = 0
  /\ events = 0
  /\ limits = [events |-> 0, calls |-> 0, cycles |-> 0]
  /\ calls = 0
  /\ endpoint = "tweet"
  /\ retries = 0
  /\ backoff = INITIAL_BACKOFF
  /\ wait_time = 0
  /\ response = NoResponse
  /\ ret = "store"
  /\ text = NONE
  /\ target = NONE

SchemaNext == SchemaLoad \/ SchemaReset \/ SchemaTweetGate \/ SchemaGetNextTweet

SchemaSpec == SchemaInit /\ [][SchemaNext]_vars

\* C38: from a document that parses but lacks schema fields the constructor
\* builds a state that has every schema field, and neither the daily reset
\* nor the tweet gate nor the choice of the tweet fails on a missing field.
C38_EveryFieldAfterLoad ==
  /\ pc \notin {"raised", "tweet_failed"}
  /\ (pc \notin {"store_load", "schema_loaded"}) => (DOMAIN state = SchemaFields)


\* ------------------------------------------------ continuous mode that goes on
\* cycles of run_forever, calls of the dispatcher and responses that fail or
\* carry headers in one run
MaxLiveCycles == 3
MaxLiveCalls == 9
MaxLiveEvents == 1

\* the documents such a run starts from: none, and one with four tweets
\* posted today, the last of them two minutes short of four hours ago
LiveFiles(now) ==
  { <<>>,
    << [DefaultState(now) EXCEPT
          !.tweets_posted_today = 4,
          !.last_tweet_time = now - (TWEET_INTERVAL_HOURS * 3600 - 120),
          !.used_tweets = << 1 >>] >> }

\* the bot as main.py runs it (follows and direct messages disabled)
LiveInit ==
  /\ pc = "cycle_start"
  /\ clock \in CapStartTimes
  /\ enable_follows = FALSE
  /\ enable_dms = FALSE
  /\ file \in LiveFiles(clock)
  /\ state = reset_daily_counters(load_state(file, clock), clock)
  /\ writes = 0
  /\ rate_limits = InitialRateLimits(clock)
  /\ cycles = 0
  /\ events = 0
  /\ limits = [events |-> MaxLiveEvents, calls |-> MaxLiveCalls,
               cycles |-> MaxLiveCycles]
  /\ calls = 0
  /\ endpoint = "tweet"
  /\ retries = 0
  /\ backoff = INITIAL_BACKOFF
  /\ wait_time = 0
  /\ response = NoResponse
  /\ ret = "cycle_start"
  /\ text = NONE
  /\ target = NONE
  /\ obs = NewObs(rate_limits, 0, state, state)

\* the steps of run_forever: the cycle, the dispatcher and the sleep
LiveNext ==
  \/ RunOnce
  \/ PostTweet \/ SkipTweet \/ PostTweetReturn
  \/ FindAndReply \/ SkipReply \/ ReplyFound \/ ReplyDelay \/ ReplyReturn
  \/ SkipFollow \/ SkipDms
  \/ CycleSleep
  \/ DispatcherLoop \/ RateLimitWait \/ DispatcherGiveUp
  \/ InvokeSuccess \/ InvokeTooManyRequests \/ InvokeError \/ BackoffSleep

\* every sleep and every remote call returns and the loop goes on: a step
\* that can be taken is taken; the responses that fail are finitely many
LiveSpec == LiveInit /\ [][LiveNext]_vars /\ WF_vars(LiveNext)

\* the run still has a cycle to come for every failure that can still come
CyclesToCome == cycles + (limits.events - events) < limits.cycles

\* post_tweet has just recorded a tweet: the time, the counter and the file
TweetRecorded ==
  /\ pc = "reply_gate"
  /\ obs.action = "tweet"
  /\ obs.last = "ok"
  /\ state.last_tweet_time = clock
  /\ state.tweets_posted_today = obs.state0.tweets_posted_today + 1
  /\ file = << state >>

\* C39: in continuous mode, with remote calls that eventually succeed and a
\* tweet pool that is not empty: whenever tweets_posted_today is below 5 and
\* no tweet was posted yet or the last one is at least 4 hours old, a tweet is
\* eventually posted, the counter is incremented and the state is saved.
C39_DueTweetIsPosted ==
  (/\ Len(tweets) > 0
   /\ state.tweets_posted_today < 5
   /\ (state.last_tweet_time = NONE
         \/ clock - state.last_tweet_time >= 4 * 3600)
   /\ CyclesToCome)
    ~> TweetRecorded

\* the tweet failed in the first cycle and is recorded in the second: the
\* text chosen for the failed attempt is used up as well
C39_Witness ==
  /\ TweetRecorded
  /\ cycles = 2
  /\ events = 1
  /\ Len(state.used_tweets) = 2
  /\ obs.done["tweet"].count = 1
  /\ obs.done["reply"].count = 0

====
